---- MODULE Spec2Model ----
(***************************************************************************)
(* Railway geometry assembly and simplification: the way materializer      *)
(* (4_assign_coordinates_to_ways.py), the relation feature builder         *)
(* (7_extract_railway_relations.py) and the route assembler                *)
(* (8_combine_railway_polylines.py), and the simplification of the         *)
(* assembled lines (10_douglas_peucker_downsample.py).                     *)
(*                                                                         *)
(* A coordinate is a pair <<x, y>>; a geometry is a record                 *)
(* [type, coordinates] as in GeoJSON; a property mapping is a function     *)
(* from keys (strings) to values.                                          *)
(***************************************************************************)
EXTENDS Integers, Sequences, FiniteSets, TLC

VARIABLES
    pc,                  \* position of the running script
    ways_files,          \* 4: the ways files, in the order of the configuration
    required_node_ids,   \* 4: the set collect_all_node_ids returned
    node_stream,         \* 4: the nodes of the PBF file delivered so far
    found_count,         \* 4: NodeCoordinateExtractor.found_count
    files_done,          \* 4: number of ways files main's loop has been through
    node_coords,         \* 4: node id -> coordinate table
    ways_data,           \* 4: features of the ways file, in file order
    updated_features,    \* 4: update_way_coordinates' output list
    missing_nodes,       \* 4: update_way_coordinates' set of ids not found
    way_lookup,          \* 8: osm_id -> [geometry, properties]
    relations_osm,       \* 7: the OSM relations read so far (typed members)
    relations_data,      \* 8: the relation features processed so far
    combined_features,   \* 8: process_railway_relations' output list
    used_way_ids,        \* 8: process_railway_relations' set of used ids
    standalone_features, \* 8: process_standalone_ways' output list
    calls,               \* 8: per processed relation, what the call to
                         \*    combine_polylines_for_relation saw and returned
    features,            \* 10: features of the input file, in file order
    tolerance_meters,    \* 10: the tolerance handed to simplify_geometry
    processed_features,  \* 10: downsample_railways' output list
    passes,              \* 10: per call of simplify_geometry, what it saw
                         \*     and returned
    output_written       \* 10: the output file was written

vars == <<pc, ways_files, required_node_ids, node_stream, found_count,
          files_done, node_coords, ways_data, updated_features, missing_nodes,
          way_lookup, relations_osm, relations_data, combined_features,
          used_way_ids, standalone_features, calls, features,
          tolerance_meters, processed_features, passes, output_written>>

extractVars ==
    <<ways_files, required_node_ids, node_stream, found_count, files_done>>

\* Outside main of 4_assign_coordinates_to_ways.py.
ExtractIdle ==
    /\ ways_files = <<>>
    /\ required_node_ids = {}
    /\ node_stream = <<>>
    /\ found_count = 0
    /\ files_done = 0

downsampleVars ==
    <<features, tolerance_meters, processed_features, passes, output_written>>

\* Before 10_douglas_peucker_downsample.py has started.
DownsampleIdle ==
    /\ features = <<>>
    /\ tolerance_meters = 0
    /\ processed_features = <<>>
    /\ passes = <<>>
    /\ output_written = FALSE

----------------------------------------------------------------------------
(* Bounds of the model                                                     *)

MaxShardWays == 1      \* ways in one ways file
MaxNodeRefs == 3       \* node ids in one way
MaxMembers == 4        \* members of a relation whose ways are merged
MaxRelations == 2      \* relations in the relations file
MaxTypedMembers == 2   \* members of a relation with node and way members
MaxPoints == 5         \* points of a line handed to simplify_geometry
MaxConstituents == 2   \* sequences of a MultiLineString handed to it
MaxFeaturePoints == 3  \* points of a line of the downsampled file
MaxFeatures == 2       \* features of the downsampled file
MaxShards == 2         \* ways files
MaxNodeEvents == 3     \* nodes the PBF file delivers

NodeIds == {1, 2, 3}

\* Where the PBF file puts node n (distinct nodes at distinct places, none at
\* the placeholder (0,0)).
NodeLocation(n) == <<n, 1>>

----------------------------------------------------------------------------
(* Generic helpers                                                         *)

SeqsUpTo(S, n) == UNION {[1..k -> S] : k \in 0..n}

Range(s) == {s[i] : i \in DOMAIN s}

EmptyMap == [k \in {} |-> 0]

\* dict.get(key, default)
Get(d, key, default) == IF key \in DOMAIN d THEN d[key] ELSE default

\* d[key] = value on a dict
Put(d, key, value) == [k \in DOMAIN d \cup {key} |-> IF k = key THEN value ELSE d[k]]

\* geojson.Point([0, 0]), the placeholder geometry of ways and relations
Placeholder == [type |-> "Point", coordinates |-> <<0, 0>>]

LineStringGeom(coords) == [type |-> "LineString", coordinates |-> coords]

MultiLineStringGeom(seqs) == [type |-> "MultiLineString", coordinates |-> seqs]

----------------------------------------------------------------------------
(* 4_assign_coordinates_to_ways.py                                         *)

\* way_coordinates with a missing node replaced by the placeholder coordinate
\* instead of skipped.
RECURSIVE way_coordinates_substituting(_, _)
way_coordinates_substituting(node_ids, table) ==
    IF node_ids = <<>> THEN <<>>
    ELSE LET rest == way_coordinates_substituting(Tail(node_ids), table)
         IN  IF Head(node_ids) \in DOMAIN table
             THEN <<table[Head(node_ids)]>> \o rest
             ELSE <<<<0, 0>>>> \o rest

\* The inner loop of update_way_coordinates: the coordinates of the node ids
\* found in the table, in the order of node_ids.
RECURSIVE way_coordinates(_, _)
way_coordinates(node_ids, table) ==
    IF node_ids = <<>> THEN <<>>
    ELSE LET rest == way_coordinates(Tail(node_ids), table)
         IN  IF Head(node_ids) \in DOMAIN table
             THEN <<table[Head(node_ids)]>> \o rest
             ELSE rest

way_missing_with_found(node_ids, table) == Range(node_ids)

\* The node ids of a way that the inner loop adds to missing_nodes.
way_missing(node_ids, table) == {n \in Range(node_ids) : n \notin DOMAIN table}

\* update_feature without the single-point branch: any resolved coordinate
\* makes a LineString.
update_feature_no_point(feature, table) ==
    LET node_ids == Get(feature.properties, "node_ids", <<>>)
        coords == way_coordinates(node_ids, table)
    IN  IF node_ids = <<>> THEN feature
        ELSE IF Len(coords) = 0 THEN feature
        ELSE [feature EXCEPT !.geometry = LineStringGeom(coords)]

\* The body of the loop over the features: the feature appended to
\* updated_features.
update_feature(feature, table) ==
    LET node_ids == Get(feature.properties, "node_ids", <<>>)
        coords == way_coordinates(node_ids, table)
    IN  IF node_ids = <<>> THEN feature
        ELSE IF Len(coords) = 0 THEN feature
        ELSE IF Len(coords) = 1
             THEN [feature EXCEPT !.geometry =
                       [type |-> "Point", coordinates |-> coords[1]]]
        ELSE [feature EXCEPT !.geometry = LineStringGeom(coords)]

\* A way feature as 2_osm_converter_ways_without_coordinates.py writes it.
WayFeature(osm_id, node_ids) ==
    [geometry |-> Placeholder,
     properties |-> [osm_id |-> osm_id, node_ids |-> node_ids]]

\* The ways a ways file may hold at position i.
WayFeatures(i) ==
    {WayFeature(100 + i, ids) : ids \in SeqsUpTo(NodeIds, MaxNodeRefs)}
    \cup {[geometry |-> Placeholder, properties |-> [osm_id |-> 100 + i]]}

\* The tables load_specific_node_coordinates may return.
NodeTables == {[n \in S |-> NodeLocation(n)] : S \in SUBSET NodeIds}

AssemblyIdle ==
    /\ way_lookup = EmptyMap
    /\ relations_osm = <<>>
    /\ relations_data = <<>>
    /\ combined_features = <<>>
    /\ used_way_ids = {}
    /\ standalone_features = <<>>
    /\ calls = <<>>

assemblyVars == <<way_lookup, relations_osm, relations_data, combined_features,
                  used_way_ids, standalone_features, calls>>

InitMaterialize ==
    /\ pc = "update"
    /\ node_coords \in NodeTables
    /\ ways_data = <<>>
    /\ updated_features = <<>>
    /\ missing_nodes = {}
    /\ ExtractIdle
    /\ AssemblyIdle
    /\ DownsampleIdle

\* One iteration of the loop of update_way_coordinates over the next
\* feature of the ways file.
UpdateWay ==
    /\ pc = "update"
    /\ Len(ways_data) < MaxShardWays
    /\ \E feature \in WayFeatures(Len(ways_data) + 1) :
        /\ ways_data' = Append(ways_data, feature)
        /\ updated_features' =
               Append(updated_features, update_feature(feature, node_coords))
        /\ missing_nodes' = missing_nodes \cup
               way_missing(Get(feature.properties, "node_ids", <<>>), node_coords)
    /\ UNCHANGED <<pc, node_coords>>
    /\ UNCHANGED extractVars
    /\ UNCHANGED assemblyVars
    /\ UNCHANGED downsampleVars

\* The end of the ways file: the output is written and the number of
\* missing node ids returned.
WriteUpdated ==
    /\ pc = "update"
    /\ pc' = "written"
    /\ UNCHANGED <<node_coords, ways_data, updated_features, missing_nodes>>
    /\ UNCHANGED extractVars
    /\ UNCHANGED assemblyVars
    /\ UNCHANGED downsampleVars

NextMaterialize == UpdateWay \/ WriteUpdated

SpecMaterialize == InitMaterialize /\ [][NextMaterialize]_vars

----------------------------------------------------------------------------
(* 4_assign_coordinates_to_ways.py: main, from the collection of the       *)
(* required node ids to the last ways file                                 *)

\* A ways file: one that cannot be opened, or its features in file order.
NotFound == [found |-> FALSE, features |-> <<>>]

WaysFile(fs) == [found |-> TRUE, features |-> fs]

\* The node ids of the ways of one file.
file_node_ids(file) ==
    UNION {Range(Get(file.features[k].properties, "node_ids", <<>>)) :
              k \in DOMAIN file.features}

\* collect_all_node_ids(ways_files): a file that cannot be opened is
\* skipped.
collect_all_node_ids(files) ==
    UNION {file_node_ids(files[i]) : i \in {j \in DOMAIN files : files[j].found}}

node_without_required_check(n, required, table, count) ==
    IF n.valid
    THEN [node_coords |-> Put(table, n.id, NodeLocation(n.id)),
          found_count |-> count + 1]
    ELSE [node_coords |-> table, found_count |-> count]

\* NodeCoordinateExtractor.node(n): the table and the count after it.
node(n, required, table, count) ==
    IF n.id \in required /\ n.valid
    THEN [node_coords |-> Put(table, n.id, NodeLocation(n.id)),
          found_count |-> count + 1]
    ELSE [node_coords |-> table, found_count |-> count]

\* The warning of load_specific_node_coordinates: the number of node ids
\* it reports as not found (0 when it prints no warning).
missing_count(required, count) ==
    IF count < Cardinality(required) THEN Cardinality(required) - count ELSE 0

update_way_coordinates_reversed(file, table) ==
    [updated_features |->
         [k \in DOMAIN file.features |->
             update_feature(file.features[Len(file.features) + 1 - k], table)],
     missing_nodes |->
         UNION {way_missing(Get(file.features[k].properties, "node_ids", <<>>),
                            table) : k \in DOMAIN file.features}]

\* update_way_coordinates(ways_file, node_coords, output_file): the list it
\* writes and the set whose size it returns.
update_way_coordinates(file, table) ==
    [updated_features |->
         [k \in DOMAIN file.features |-> update_feature(file.features[k], table)],
     missing_nodes |->
         UNION {way_missing(Get(file.features[k].properties, "node_ids", <<>>),
                            table) : k \in DOMAIN file.features}]

\* Step 1 of main.
CollectAllNodeIds ==
    /\ pc = "collect"
    /\ required_node_ids' = collect_all_node_ids(ways_files)
    /\ pc' = "nodes"
    /\ UNCHANGED <<ways_files, node_stream, found_count, files_done, node_coords,
                   ways_data, updated_features, missing_nodes>>
    /\ UNCHANGED assemblyVars
    /\ UNCHANGED downsampleVars

\* The nodes the PBF file may deliver: a node id, and whether its location
\* is valid.
StreamNodes == [id : NodeIds, valid : BOOLEAN]

\* apply_file delivers one more node to NodeCoordinateExtractor.node.
Node ==
    /\ pc = "nodes"
    /\ Len(node_stream) < MaxNodeEvents
    /\ \E n \in StreamNodes :
           /\ node_stream' = Append(node_stream, n)
           /\ node_coords' =
                  node(n, required_node_ids, node_coords, found_count).node_coords
           /\ found_count' =
                  node(n, required_node_ids, node_coords, found_count).found_count
    /\ UNCHANGED <<pc, ways_files, required_node_ids, files_done, ways_data,
                   updated_features, missing_nodes>>
    /\ UNCHANGED assemblyVars
    /\ UNCHANGED downsampleVars

\* apply_file returns: load_specific_node_coordinates reports the counts
\* and returns the table.
ReturnNodeCoords ==
    /\ pc = "nodes"
    /\ pc' = "files"
    /\ UNCHANGED <<ways_files, required_node_ids, node_stream, found_count,
                   files_done, node_coords, ways_data, updated_features,
                   missing_nodes>>
    /\ UNCHANGED assemblyVars
    /\ UNCHANGED downsampleVars

\* One iteration of the loop of main over the ways files: the call of
\* update_way_coordinates, or the FileNotFoundError it raises, caught.
UpdateWaysFile ==
    /\ pc = "files"
    /\ files_done < Len(ways_files)
    /\ files_done' = files_done + 1
    /\ IF ways_files[files_done + 1].found
       THEN /\ ways_data' = ways_files[files_done + 1].features
            /\ updated_features' =
                   update_way_coordinates(ways_files[files_done + 1],
                                          node_coords).updated_features
            /\ missing_nodes' =
                   update_way_coordinates(ways_files[files_done + 1],
                                          node_coords).missing_nodes
       ELSE UNCHANGED <<ways_data, updated_features, missing_nodes>>
    /\ UNCHANGED <<pc, ways_files, required_node_ids, node_stream, found_count,
                   node_coords>>
    /\ UNCHANGED assemblyVars
    /\ UNCHANGED downsampleVars

\* The loop of main ended.
ProcessingComplete ==
    /\ pc = "files"
    /\ files_done = Len(ways_files)
    /\ pc' = "complete"
    /\ UNCHANGED <<ways_files, required_node_ids, node_stream, found_count,
                   files_done, node_coords, ways_data, updated_features,
                   missing_nodes>>
    /\ UNCHANGED assemblyVars
    /\ UNCHANGED downsampleVars

\* The ways files of the configuration: a file that is not there, an empty
\* one, files of one way, with a node id that another file has too and
\* with a node id twice, a file of a way without node_ids and a way with
\* an empty list, and a file of two ways with node ids.
ShardFiles ==
    {NotFound,
     WaysFile(<<>>),
     WaysFile(<<WayFeature(101, <<1, 2>>)>>),
     WaysFile(<<WayFeature(102, <<2, 2>>)>>),
     WaysFile(<<[geometry |-> Placeholder, properties |-> [osm_id |-> 103]],
                WayFeature(106, <<>>)>>),
     WaysFile(<<WayFeature(104, <<1>>), WayFeature(105, <<3, 1>>)>>)}

InitExtract ==
    /\ pc = "collect"
    /\ ways_files \in SeqsUpTo(ShardFiles, MaxShards)
    /\ required_node_ids = {}
    /\ node_stream = <<>>
    /\ found_count = 0
    /\ files_done = 0
    /\ node_coords = EmptyMap
    /\ ways_data = <<>>
    /\ updated_features = <<>>
    /\ missing_nodes = {}
    /\ AssemblyIdle
    /\ DownsampleIdle

NextExtract ==
    CollectAllNodeIds \/ Node \/ ReturnNodeCoords \/ UpdateWaysFile
        \/ ProcessingComplete

SpecExtract == InitExtract /\ [][NextExtract]_vars

----------------------------------------------------------------------------
(* shapely.ops.linemerge, as called by combine_polylines_for_relation      *)
(*                                                                         *)
(* linemerge hands the lines to the GEOS LineMerger, which the operators   *)
(* below follow step by step: every line with at least two distinct        *)
(* consecutive points is an edge between its first and last point; strands *)
(* are walked from the nodes of degree other than 2 first (in coordinate   *)
(* order, out-edges in angle order), then from the remaining nodes (the    *)
(* isolated rings); a walk continues through a node only when its degree   *)
(* is exactly 2.                                                           *)

Null == [edge |-> 0, forward |-> TRUE]

\* CoordinateArrays.removeRepeatedPoints
RECURSIVE RemoveRepeatedPoints(_)
RemoveRepeatedPoints(coords) ==
    IF Len(coords) <= 1 THEN coords
    ELSE LET rest == RemoveRepeatedPoints(Tail(coords))
         IN  IF Head(coords) = Head(rest) THEN rest ELSE <<Head(coords)>> \o rest

Reverse(s) == [i \in 1..Len(s) |-> s[Len(s) + 1 - i]]

\* Coordinate ordering of the node map: by x, then by y.
CoordLess(a, b) == a[1] < b[1] \/ (a[1] = b[1] /\ a[2] < b[2])

\* LineMergeGraph.addEdge: lines whose points are all equal are not added.
MergeEdges(lines) ==
    {i \in DOMAIN lines : Len(RemoveRepeatedPoints(lines[i])) > 1}

DirectedEdges(lines) ==
    {[edge |-> i, forward |-> f] : i \in MergeEdges(lines), f \in BOOLEAN}

Sym(de) == [de EXCEPT !.forward = ~de.forward]

FromNode(lines, de) ==
    LET pts == RemoveRepeatedPoints(lines[de.edge])
    IN  IF de.forward THEN pts[1] ELSE pts[Len(pts)]

\* The direction point of a directed edge: the point next to its from-node.
DirectionPt(lines, de) ==
    LET pts == RemoveRepeatedPoints(lines[de.edge])
    IN  IF de.forward THEN pts[2] ELSE pts[Len(pts) - 1]

\* Quadrant.quadrant(dx, dy): NE = 0, NW = 1, SW = 2, SE = 3
Quadrant(dx, dy) ==
    IF dx >= 0 THEN (IF dy >= 0 THEN 0 ELSE 3)
    ELSE (IF dy >= 0 THEN 1 ELSE 2)

Sign(n) == IF n > 0 THEN 1 ELSE IF n < 0 THEN -1 ELSE 0

\* Orientation.index(p1, p2, q): 1 when q is to the left of p1 -> p2
OrientationIndex(p1, p2, q) ==
    Sign((p2[1] - p1[1]) * (q[2] - p1[2]) - (p2[2] - p1[2]) * (q[1] - p1[1]))

\* DirectedEdge.compareDirection, for two directed edges out of the node at
\* p0 with the direction points pa and pb
CompareDirection(p0, pa, pb) ==
    LET qa == Quadrant(pa[1] - p0[1], pa[2] - p0[2])
        qb == Quadrant(pb[1] - p0[1], pb[2] - p0[2])
    IN  IF qa > qb THEN 1
        ELSE IF qa < qb THEN -1
        ELSE OrientationIndex(p0, pb, pa)

\* The order in which Edge.setDirectedEdges adds directed edges to the stars
\* of their from-nodes: by line, the forward one first.
InsertionRank(de) == 2 * de.edge + (IF de.forward THEN 0 ELSE 1)

\* a sorts before b in the star of the node at p0 (a stable sort by
\* direction); dir gives each directed edge's direction point.
StarBefore(p0, dir, a, b) ==
    LET c == CompareDirection(p0, dir[a], dir[b])
    IN  c < 0 \/ (c = 0 /\ InsertionRank(a) < InsertionRank(b))

RECURSIVE SortStar(_, _, _)
SortStar(p0, dir, des) ==
    IF des = {} THEN <<>>
    ELSE LET first == CHOOSE a \in des :
                          \A b \in des \ {a} : StarBefore(p0, dir, a, b)
         IN  <<first>> \o SortStar(p0, dir, des \ {first})

RECURSIVE SortCoords(_)
SortCoords(cs) ==
    IF cs = {} THEN <<>>
    ELSE LET first == CHOOSE a \in cs : \A b \in cs \ {a} : CoordLess(a, b)
         IN  <<first>> \o SortCoords(cs \ {first})

\* The LineMergeGraph of the lines: from: the from-node of every directed
\* edge; nodes: PlanarGraph.getNodes, in the order of the node map; star:
\* DirectedEdgeStar.getEdges of every node, sorted.
MergeGraph(lines) ==
    LET des == DirectedEdges(lines)
        from == [de \in des |-> FromNode(lines, de)]
        dir == [de \in des |-> DirectionPt(lines, de)]
        nodes == {from[de] : de \in des}
    IN  [lines |-> lines,
         from |-> from,
         nodes |-> SortCoords(nodes),
         star |-> [c \in nodes |->
                      SortStar(c, dir, {de \in des : from[de] = c})]]

Degree(g, c) == Len(g.star[c])

\* LineMergeDirectedEdge.getNext
GetNext(g, de) ==
    LET to == g.from[Sym(de)]
        out == g.star[to]
    IN  IF Degree(g, to) # 2 THEN Null
        ELSE IF out[1] = Sym(de) THEN out[2] ELSE out[1]

\* LineMerger.buildEdgeStringStartingWith: the directed edges of one strand
RECURSIVE EdgeStringFrom(_, _, _, _)
EdgeStringFrom(g, start, current, acc) ==
    LET next == GetNext(g, current)
    IN  IF next = Null \/ next = start THEN Append(acc, current)
        ELSE EdgeStringFrom(g, start, next, Append(acc, current))

\* LineMerger.buildEdgeStringsStartingAt over the out-edges out[k..]:
\* st = [marked: the marked lines, strings: the edge strings so far]
RECURSIVE StringsStartingAt(_, _, _, _)
StringsStartingAt(g, out, k, st) ==
    IF k > Len(out) THEN st
    ELSE IF out[k].edge \in st.marked
         THEN StringsStartingAt(g, out, k + 1, st)
    ELSE LET es == EdgeStringFrom(g, out[k], out[k], <<>>)
         IN  StringsStartingAt(g, out, k + 1,
                 [marked |-> st.marked \cup {es[j].edge : j \in DOMAIN es},
                  strings |-> Append(st.strings, es)])

\* LineMerger.buildEdgeStringsForNonDegree2Nodes (degree2 = FALSE) and
\* buildEdgeStringsForUnprocessedNodes (degree2 = TRUE) over nodes[k..]
RECURSIVE StringsForNodes(_, _, _, _)
StringsForNodes(g, k, degree2, st) ==
    IF k > Len(g.nodes) THEN st
    ELSE IF (Degree(g, g.nodes[k]) = 2) # degree2
         THEN StringsForNodes(g, k + 1, degree2, st)
    ELSE StringsForNodes(g, k + 1, degree2,
             StringsStartingAt(g, g.star[g.nodes[k]], 1, st))

\* LineMerger.merge: the edge strings in the order they are built
EdgeStrings(lines) ==
    LET g == MergeGraph(lines)
        st0 == [marked |-> {}, strings |-> <<>>]
        st1 == StringsForNodes(g, 1, FALSE, st0)
        st2 == StringsForNodes(g, 1, TRUE, st1)
    IN  st2.strings

\* CoordinateList.add(coords, allowRepeated = false): a coordinate equal to
\* the last one of the list is not added.
RECURSIVE AddNoRepeat(_, _)
AddNoRepeat(list, coords) ==
    IF coords = <<>> THEN list
    ELSE IF list # <<>> /\ list[Len(list)] = Head(coords)
         THEN AddNoRepeat(list, Tail(coords))
    ELSE AddNoRepeat(Append(list, Head(coords)), Tail(coords))

RECURSIVE StringCoordinates(_, _, _, _)
StringCoordinates(lines, es, k, list) ==
    IF k > Len(es) THEN list
    ELSE StringCoordinates(lines, es, k + 1,
             AddNoRepeat(list, IF es[k].forward THEN lines[es[k].edge]
                               ELSE Reverse(lines[es[k].edge])))

\* EdgeString.getCoordinates: the lines' points along the strand, turned
\* round when more lines are walked backwards than forwards.
EdgeStringCoordinates(lines, es) ==
    LET coords == StringCoordinates(lines, es, 1, <<>>)
        forwards == Cardinality({j \in DOMAIN es : es[j].forward})
    IN  IF Len(es) - forwards > forwards THEN Reverse(coords) ELSE coords

\* LineMerger.getMergedLineStrings: the coordinates of every edge string
MergedLineStrings(lines, es) ==
    [j \in 1..Len(es) |-> EdgeStringCoordinates(lines, es[j])]

\* GeometryFactory.buildGeometry over the merged line strings
BuildGeometry(merged) ==
    IF Len(merged) = 0
    THEN [type |-> "GeometryCollection", coordinates |-> <<>>]
    ELSE IF Len(merged) = 1 THEN LineStringGeom(merged[1])
    ELSE MultiLineStringGeom(merged)

FirstOnly(merged) == IF merged = <<>> THEN <<>> ELSE <<merged[1]>>

\* A merge that keeps only its first merged line string.
linemerge_first_only(lines) ==
    BuildGeometry(FirstOnly(MergedLineStrings(lines, EdgeStrings(lines))))

\* shapely.ops.linemerge of a list of LineStrings
linemerge(lines) ==
    BuildGeometry(MergedLineStrings(lines, EdgeStrings(lines)))

----------------------------------------------------------------------------
(* 7_extract_railway_relations.py                                          *)

\* How many members of the list satisfy a key: one entry of the
\* defaultdict(int) built over the members.
CountBy(members, field, value) ==
    Cardinality({j \in DOMAIN members : members[j][field] = value})

\* RailwayRelationsExtractor._create_feature_properties: the fixed keys,
\* then every tag, then the member information (a later write wins).
create_feature_properties(osm_id, osm_type, tags, members) ==
    LET fixed == [osm_id |-> osm_id, osm_type |-> osm_type,
                  member_count |-> Len(members)]
        tagged == [k \in DOMAIN fixed \cup DOMAIN tags |->
                      IF k \in DOMAIN tags THEN tags[k] ELSE fixed[k]]
        member_types == [t \in {members[j].type : j \in DOMAIN members} |->
                            CountBy(members, "type", t)]
        member_roles == [r \in {members[j].role : j \in DOMAIN members} |->
                            CountBy(members, "role", r)]
        member_ids == [j \in DOMAIN members |-> members[j].ref]
    IN  Put(Put(Put(tagged, "member_types", member_types),
                "member_roles", member_roles),
            "member_ids", member_ids)

\* RailwayRelationsExtractor.relation: the feature saved for OSM relation r
RelationFeature(r) ==
    [geometry |-> Placeholder,
     properties |-> create_feature_properties(r.id, "relation", r.tags, r.members)]

----------------------------------------------------------------------------
(* 8_combine_railway_polylines.py                                          *)

\* What combine_polylines_for_relation returns when it returns None
None == [type |-> "None", coordinates |-> <<>>]

\* The loop of combine_polylines_for_relation over member_ids: the point
\* sequences of the LineStrings collected in line_strings.
RECURSIVE collect_line_strings(_, _)
collect_line_strings(member_ids, lookup) ==
    IF member_ids = <<>> THEN <<>>
    ELSE LET member_id == Head(member_ids)
             rest == collect_line_strings(Tail(member_ids), lookup)
         IN  IF /\ member_id \in DOMAIN lookup
                /\ lookup[member_id].geometry.type = "LineString"
                /\ Len(lookup[member_id].geometry.coordinates) >= 2
             THEN <<lookup[member_id].geometry.coordinates>> \o rest
             ELSE rest

merged_to_geojson_always_multi(merged, line_strings) ==
    IF merged.type = "LineString" THEN MultiLineStringGeom(<<merged.coordinates>>)
    ELSE IF merged.type = "MultiLineString"
         THEN MultiLineStringGeom(merged.coordinates)
    ELSE MultiLineStringGeom(line_strings)

\* The conversion of the merged geometry back to GeoJSON, with the
\* fallback for a geometry that is neither kind of line.
merged_to_geojson(merged, line_strings) ==
    IF merged.type = "LineString" THEN LineStringGeom(merged.coordinates)
    ELSE IF merged.type = "MultiLineString"
         THEN MultiLineStringGeom(merged.coordinates)
    ELSE MultiLineStringGeom(line_strings)

\* A try block that never connects the lines.
merge_or_fallback_unmerged(line_strings, raises) ==
    MultiLineStringGeom(line_strings)

\* The try block of combine_polylines_for_relation; raises says whether
\* linemerge raised an exception.
merge_or_fallback(line_strings, raises) ==
    IF raises THEN MultiLineStringGeom(line_strings)
    ELSE merged_to_geojson(linemerge(line_strings), line_strings)

\* A combination without the fallbacks: a failed merge step gives no result.
combine_polylines_without_fallback(relation, lookup, raises) ==
    LET member_ids == Get(relation.properties, "member_ids", <<>>)
        line_strings == collect_line_strings(member_ids, lookup)
        merged == linemerge(line_strings)
    IN  IF member_ids = <<>> \/ line_strings = <<>> \/ raises THEN None
        ELSE IF merged.type \in {"LineString", "MultiLineString"} THEN merged
        ELSE None

\* combine_polylines_for_relation: None without member ids or without a
\* usable LineString, else the merge of the collected lines.
combine_polylines_for_relation(relation, lookup, raises) ==
    LET member_ids == Get(relation.properties, "member_ids", <<>>)
        line_strings == collect_line_strings(member_ids, lookup)
    IN  IF member_ids = <<>> THEN None
        ELSE IF line_strings = <<>> THEN None
        ELSE merge_or_fallback(line_strings, raises)

\* Properties that always announce a LineString.
relation_properties_fixed_type(relation, combined_geometry) ==
    LET member_ids == Get(relation.properties, "member_ids", <<>>)
    IN  Put(Put(Put(relation.properties,
                    "combined_way_count", Len(member_ids)),
                "geometry_type", "LineString"),
            "source", "relation")

\* The properties of the feature process_railway_relations builds.
relation_properties(relation, combined_geometry) ==
    LET member_ids == Get(relation.properties, "member_ids", <<>>)
    IN  Put(Put(Put(relation.properties,
                    "combined_way_count", Len(member_ids)),
                "geometry_type", combined_geometry.type),
            "source", "relation")

relation_used_ids_first_member(relation, lookup) ==
    {m \in Range(SubSeq(Get(relation.properties, "member_ids", <<>>), 1, 1)) :
        m \in DOMAIN lookup}

\* The member ids process_railway_relations adds to used_way_ids.
relation_used_ids(relation, lookup) ==
    {m \in Range(Get(relation.properties, "member_ids", <<>>)) :
        m \in DOMAIN lookup}

\* The properties of the feature process_standalone_ways builds.
standalone_properties(way_data) ==
    Put(Put(Put(way_data.properties, "source", "standalone_way"),
            "geometry_type", "LineString"),
        "combined_way_count", 1)

\* The loop of process_standalone_ways over the ways ids[k..] of the lookup
\* (ids: the keys of way_lookup in dictionary order).
RECURSIVE standalone_from(_, _, _, _)
standalone_from(lookup, used, ids, k) ==
    IF k > Len(ids) THEN <<>>
    ELSE LET osm_id == ids[k]
             way_data == lookup[osm_id]
             rest == standalone_from(lookup, used, ids, k + 1)
         IN  IF /\ osm_id \notin used
                /\ way_data.geometry.type = "LineString"
                /\ Len(way_data.geometry.coordinates) >= 2
             THEN <<[geometry |-> way_data.geometry,
                     properties |-> standalone_properties(way_data)]>> \o rest
             ELSE rest

RECURSIVE SortIds(_)
SortIds(ids) ==
    IF ids = {} THEN <<>>
    ELSE LET first == CHOOSE a \in ids : \A b \in ids : a <= b
         IN  <<first>> \o SortIds(ids \ {first})

\* create_way_lookup fills the dictionary in the order of the ways file,
\* which the extractor writes in the order of the OSM ids.
LookupKeys(lookup) == SortIds(DOMAIN lookup)

MaterializeIdle ==
    /\ ExtractIdle
    /\ node_coords = EmptyMap
    /\ ways_data = <<>>
    /\ updated_features = <<>>
    /\ missing_nodes = {}

materializeVars ==
    <<ways_files, required_node_ids, node_stream, found_count, files_done,
      node_coords, ways_data, updated_features, missing_nodes>>

\* The body of the loop of process_railway_relations for the feature
\* relation (saved from OSM relation r), once combined_geometry is known.
AppendCombined(r, relation, combined_geometry, raises) ==
       LET member_ids == Get(relation.properties, "member_ids", <<>>)
       IN  /\ relations_osm' = Append(relations_osm, r)
           /\ relations_data' = Append(relations_data, relation)
           /\ calls' = Append(calls,
                  [line_strings |-> collect_line_strings(member_ids, way_lookup),
                   raised |-> raises /\ combined_geometry # None,
                   geometry |-> combined_geometry])
           /\ IF combined_geometry # None
              THEN /\ used_way_ids' =
                          used_way_ids \cup relation_used_ids(relation, way_lookup)
                   /\ combined_features' = Append(combined_features,
                          [geometry |-> combined_geometry,
                           properties |->
                               relation_properties(relation, combined_geometry)])
              ELSE UNCHANGED <<used_way_ids, combined_features>>

\* One iteration of the loop of process_railway_relations, over the feature
\* that OSM relation r was saved as; raises: linemerge raises in this call.
ProcessRelation(r, raises) ==
    /\ pc = "relations"
    /\ AppendCombined(r, RelationFeature(r),
           combine_polylines_for_relation(RelationFeature(r), way_lookup, raises),
           raises)
    /\ UNCHANGED <<pc, way_lookup, standalone_features>>
    /\ UNCHANGED materializeVars
    /\ UNCHANGED downsampleVars

\* process_standalone_ways, called when the loop over the relations ended.
ProcessStandaloneWays ==
    /\ pc = "relations"
    /\ standalone_features' =
           standalone_from(way_lookup, used_way_ids, LookupKeys(way_lookup), 1)
    /\ pc' = "done"
    /\ UNCHANGED <<way_lookup, relations_osm, relations_data, combined_features,
                   used_way_ids, calls>>
    /\ UNCHANGED materializeVars
    /\ UNCHANGED downsampleVars

----------------------------------------------------------------------------
(* Inputs of the route assembler                                           *)

NoTags == EmptyMap

\* An entry of way_lookup as create_way_lookup stores it.
WayData(osm_id, geometry, tags) ==
    [geometry |-> geometry,
     properties |-> Put(tags, "osm_id", osm_id)]

Member(type, ref) == [type |-> type, ref |-> ref, role |-> ""]

\* An OSM relation as the reader yields it.
OsmRelation(id, tags, members) == [id |-> id, tags |-> tags, members |-> members]

\* The ways whose merging is examined. Way 1 is the first line of a chain,
\* or that line closed to a ring, or that line with a repeated point; way 2
\* is the second line of the chain or a placeholder Point; way 3 is a
\* three-point line that branches off the chain at (1,0), or a line of two
\* equal points; way 4 closes ways 2 and 3 to a ring, or lies apart.
MergeWayIds == {1, 2, 3, 4}

MergeWayGeometries(id) ==
    CASE id = 1 -> {LineStringGeom(<< <<0, 0>>, <<1, 0>> >>),
                    LineStringGeom(<< <<0, 0>>, <<1, 0>>, <<0, 0>> >>),
                    LineStringGeom(<< <<0, 0>>, <<0, 0>>, <<1, 0>> >>)}
      [] id = 2 -> {LineStringGeom(<< <<1, 0>>, <<2, 0>> >>), Placeholder}
      [] id = 3 -> {LineStringGeom(<< <<1, 0>>, <<2, 0>>, <<1, 1>> >>),
                    LineStringGeom(<< <<1, 1>>, <<1, 1>> >>)}
      [] id = 4 -> {LineStringGeom(<< <<2, 0>>, <<1, 1>> >>),
                    LineStringGeom(<< <<5, 5>>, <<6, 6>> >>)}

MergeLookups ==
    {[id \in MergeWayIds |-> WayData(id, g[id], NoTags)] :
        g \in {h \in [MergeWayIds -> UNION {MergeWayGeometries(id) : id \in MergeWayIds}] :
                  \A id \in MergeWayIds : h[id] \in MergeWayGeometries(id)}}

\* Relations of way members only.
MergeRelations ==
    {OsmRelation(11, NoTags, [j \in DOMAIN refs |-> Member("way", refs[j])]) :
        refs \in SeqsUpTo(MergeWayIds, MaxMembers)}

InitMerge ==
    /\ pc = "relations"
    /\ way_lookup \in MergeLookups
    /\ relations_osm = <<>>
    /\ relations_data = <<>>
    /\ combined_features = <<>>
    /\ used_way_ids = {}
    /\ standalone_features = <<>>
    /\ calls = <<>>
    /\ MaterializeIdle
    /\ DownsampleIdle

\* The relations file holds one relation of way members.
MergeRelation ==
    /\ relations_data = <<>>
    /\ \E r \in MergeRelations, raises \in BOOLEAN : ProcessRelation(r, raises)

NextMerge == MergeRelation \/ ProcessStandaloneWays

SpecMerge == InitMerge /\ [][NextMerge]_vars

\* The ways and relations whose bookkeeping is examined: way ids 1 and 2,
\* each absent from the ways file, a placeholder Point or its line; the
\* tags of a way or relation are a name or a source; a relation holds way
\* and node members that refer to the ids 1 and 2.
AssembleWayIds == {1, 2}

AssembleLine(id) == << <<id - 1, 0>>, <<id, 0>> >>

TagSets == {[name |-> "Line"], [source |-> "survey"]}

AssembleLookups ==
    UNION {
        {[id \in S |-> WayData(id, g[id], t[id])] :
            g \in [S -> {Placeholder} \cup {LineStringGeom(AssembleLine(id)) : id \in S}],
            t \in [S -> TagSets]} :
        S \in SUBSET AssembleWayIds}

MemberTypes == {"way", "node"}

AssembleMembers == {Member(type, ref) : type \in MemberTypes, ref \in AssembleWayIds}

AssembleRelations(id) ==
    {OsmRelation(id, tags, members) :
        tags \in TagSets, members \in SeqsUpTo(AssembleMembers, MaxTypedMembers)}

InitAssemble ==
    /\ pc = "relations"
    /\ way_lookup \in AssembleLookups
    /\ relations_osm = <<>>
    /\ relations_data = <<>>
    /\ combined_features = <<>>
    /\ used_way_ids = {}
    /\ standalone_features = <<>>
    /\ calls = <<>>
    /\ MaterializeIdle
    /\ DownsampleIdle

\* The next relation of the relations file.
AssembleRelation ==
    /\ Len(relations_data) < MaxRelations
    /\ \E r \in AssembleRelations(11 + Len(relations_data)) :
           ProcessRelation(r, FALSE)

NextAssemble == AssembleRelation \/ ProcessStandaloneWays

SpecAssemble == InitAssemble /\ [][NextAssemble]_vars

----------------------------------------------------------------------------
(* 10_douglas_peucker_downsample.py: shapely's LineString.simplify with    *)
(* preserve_topology = True, which is the TopologyPreservingSimplifier of  *)
(* GEOS applied to one line. Planar coordinates are integers; a distance   *)
(* is kept as its square, a fraction [num, den], so that comparisons are   *)
(* exact.                                                                  *)

DistSq(p, q) == (p[1] - q[1]) * (p[1] - q[1]) + (p[2] - q[2]) * (p[2] - q[2])

\* Distance.pointToSegment(p, A, B): the distance to the segment, not to
\* the line through it.
PointToSegmentSq(p, A, B) ==
    LET dx == B[1] - A[1]
        dy == B[2] - A[2]
        len2 == dx * dx + dy * dy
        r == (p[1] - A[1]) * dx + (p[2] - A[2]) * dy
        s == (A[2] - p[2]) * dx - (A[1] - p[1]) * dy
    IN  IF len2 = 0 THEN [num |-> DistSq(p, A), den |-> 1]
        ELSE IF r <= 0 THEN [num |-> DistSq(p, A), den |-> 1]
        ELSE IF r >= len2 THEN [num |-> DistSq(p, B), den |-> 1]
        ELSE [num |-> s * s, den |-> len2]

\* distance a > distance b
FartherThan(a, b) == a.num * b.den > b.num * a.den

\* distance d > tolerance
ExceedsTolerance(d, tolerance) == d.num > tolerance * tolerance * d.den

\* TaggedLineStringSimplifier.findFurthestPoint over the points k..j-1 of
\* the section i..j; best = [index, distance] so far (distance -1 at first).
RECURSIVE FurthestFrom(_, _, _, _, _)
FurthestFrom(pts, i, j, k, best) ==
    IF k >= j THEN best
    ELSE LET d == PointToSegmentSq(pts[k], pts[i], pts[j])
         IN  IF best.index = i \/ FartherThan(d, best.distance)
             THEN FurthestFrom(pts, i, j, k + 1, [index |-> k, distance |-> d])
             ELSE FurthestFrom(pts, i, j, k + 1, best)

findFurthestPoint_first_interior(pts, i, j) ==
    [index |-> i + 1, distance |-> PointToSegmentSq(pts[i + 1], pts[i], pts[j])]

findFurthestPoint(pts, i, j) ==
    FurthestFrom(pts, i, j, i + 1, [index |-> i, distance |-> [num |-> 0, den |-> 1]])

\* Envelope.intersects(p1, p2, q): q lies in the envelope of p1 and p2
InEnvelope(p1, p2, q) ==
    /\ q[1] >= (IF p1[1] < p2[1] THEN p1[1] ELSE p2[1])
    /\ q[1] <= (IF p1[1] > p2[1] THEN p1[1] ELSE p2[1])
    /\ q[2] >= (IF p1[2] < p2[2] THEN p1[2] ELSE p2[2])
    /\ q[2] <= (IF p1[2] > p2[2] THEN p1[2] ELSE p2[2])

\* LineIntersector.computeCollinearIntersection: the intersection points
CollinearIntersection(p1, p2, q1, q2) ==
    LET q1inP == InEnvelope(p1, p2, q1)
        q2inP == InEnvelope(p1, p2, q2)
        p1inQ == InEnvelope(q1, q2, p1)
        p2inQ == InEnvelope(q1, q2, p2)
    IN  IF q1inP /\ q2inP THEN <<q1, q2>>
        ELSE IF p1inQ /\ p2inQ THEN <<p1, p2>>
        ELSE IF q1inP /\ p1inQ THEN <<q1, p1>>
        ELSE IF q1inP /\ p2inQ THEN <<q1, p2>>
        ELSE IF q2inP /\ p1inQ THEN <<q2, p1>>
        ELSE IF q2inP /\ p2inQ THEN <<q2, p2>>
        ELSE <<>>

\* RobustLineIntersector.computeIntersect for the segments p1-p2 and q1-q2:
\* [proper: the segments cross in the interior of both, pts: the
\* intersection points when they do not]. (Its test of the envelopes first
\* changes nothing: segments with disjoint envelopes fail the tests below.)
ComputeIntersection(p1, p2, q1, q2) ==
    LET Pq1 == OrientationIndex(p1, p2, q1)
        Pq2 == OrientationIndex(p1, p2, q2)
        Qp1 == OrientationIndex(q1, q2, p1)
        Qp2 == OrientationIndex(q1, q2, p2)
        none == [proper |-> FALSE, pts |-> <<>>]
    IN  IF Pq1 * Pq2 > 0 \/ Qp1 * Qp2 > 0 THEN none
        ELSE IF Pq1 = 0 /\ Pq2 = 0 /\ Qp1 = 0 /\ Qp2 = 0
             THEN [proper |-> FALSE, pts |-> CollinearIntersection(p1, p2, q1, q2)]
        ELSE IF Pq1 # 0 /\ Pq2 # 0 /\ Qp1 # 0 /\ Qp2 # 0
             THEN [proper |-> TRUE, pts |-> <<>>]
        ELSE [proper |-> FALSE,
              pts |-> IF p1 = q1 \/ p1 = q2 THEN <<p1>>
                      ELSE IF p2 = q1 \/ p2 = q2 THEN <<p2>>
                      ELSE IF Pq1 = 0 THEN <<q1>>
                      ELSE IF Pq2 = 0 THEN <<q2>>
                      ELSE IF Qp1 = 0 THEN <<p1>>
                      ELSE <<p2>>]

\* TaggedLineStringSimplifier.hasInteriorIntersection: some intersection
\* point is not an end of both segments (LineIntersector.isInteriorIntersection).
hasInteriorIntersection(seg0, seg1) ==
    LET li == ComputeIntersection(seg0[1], seg0[2], seg1[1], seg1[2])
    IN  \/ li.proper
        \/ \E k \in DOMAIN li.pts :
               \/ li.pts[k] \notin {seg0[1], seg0[2]}
               \/ li.pts[k] \notin {seg1[1], seg1[2]}

\* The state of one TaggedLineStringSimplifier run over the points pts:
\* result: the result segments, as pairs of indices into pts; removed: the
\* segments (by the index of their first point) taken out of the input index.
NoSections == [result |-> <<>>, removed |-> {}]

\* TaggedLineString.getResultSize
ResultSize(st) == IF st.result = <<>> THEN 0 ELSE Len(st.result) + 1

\* hasBadOutputIntersection and hasBadInputIntersection for the candidate
\* segment pts[i] - pts[j]: the output index holds the flattened segments,
\* the input index the segments not removed; the segments of the section
\* itself do not count.
hasBadIntersection(pts, st, i, j) ==
    LET candidateSeg == <<pts[i], pts[j]>>
    IN  \/ \E k \in DOMAIN st.result :
               /\ st.result[k][2] > st.result[k][1] + 1
               /\ hasInteriorIntersection(
                      <<pts[st.result[k][1]], pts[st.result[k][2]]>>, candidateSeg)
        \/ \E k \in 1..(Len(pts) - 1) :
               /\ k \notin st.removed
               /\ ~(k >= i /\ k < j)
               /\ hasInteriorIntersection(<<pts[k], pts[k + 1]>>, candidateSeg)

\* TaggedLineStringSimplifier.simplifySection(i, j, depth)
RECURSIVE simplifySection(_, _, _, _, _, _, _)
simplifySection(pts, tolerance, minSize, i, j, depth, st) ==
    IF i + 1 = j THEN [st EXCEPT !.result = Append(@, <<i, j>>)]
    ELSE LET far == findFurthestPoint(pts, i, j)
             isValidToSimplify ==
                 /\ ~(ResultSize(st) < minSize /\ depth + 2 < minSize)
                 /\ ~ExceedsTolerance(far.distance, tolerance)
                 /\ ~hasBadIntersection(pts, st, i, j)
         IN  IF isValidToSimplify
             THEN [result |-> Append(st.result, <<i, j>>),
                   removed |-> st.removed \cup i..(j - 1)]
             ELSE simplifySection(pts, tolerance, minSize, far.index, j, depth + 1,
                      simplifySection(pts, tolerance, minSize, i, far.index,
                                      depth + 1, st))

\* Result coordinates without the last point of the last segment.
ResultCoordinates_without_last(pts, result) ==
    [k \in 1..Len(result) |-> pts[result[k][1]]]

\* TaggedLineString.getResultCoordinates: the first point of every result
\* segment, then the last point of the last one.
ResultCoordinates(pts, result) ==
    [k \in 1..(Len(result) + 1) |->
        IF k <= Len(result) THEN pts[result[k][1]] ELSE pts[result[Len(result)][2]]]

simplify_reversed(pts, tolerance) ==
    Reverse(ResultCoordinates(pts,
        simplifySection(pts, tolerance,
            IF pts[1] = pts[Len(pts)] THEN 4 ELSE 2,
            1, Len(pts), 0, NoSections).result))

\* LineString.simplify(tolerance, preserve_topology=True) on a line of at
\* least 2 points: the minimum size is 4 for a closed line and 2 otherwise.
simplify(pts, tolerance) ==
    ResultCoordinates(pts,
        simplifySection(pts, tolerance,
            IF pts[1] = pts[Len(pts)] THEN 4 ELSE 2,
            1, Len(pts), 0, NoSections).result)

\* Floating-point infinity, which pyproj returns for a coordinate it cannot
\* transform.
Inf == 1000

IsFinite(coord) == coord[1] # Inf /\ coord[2] # Inf

\* The interior points of coords at the positions keep, between its two
\* ends.
KeepPoints(coords, keep) ==
    SelectSeq([k \in DOMAIN coords |-> <<k, coords[k]>>],
              LAMBDA e : e[1] \in {1, Len(coords)} \cup keep)

PointsOf(indexed) == [k \in DOMAIN indexed |-> indexed[k][2]]

\* What the engine does beyond its algorithm: empty: the sequences (by
\* position in the geometry) for which it reports an empty geometry; keep:
\* on a sequence with a coordinate that is not finite, where its arithmetic
\* is not defined, the interior positions it happens to keep.
RegularEngine == [empty |-> {}, keep |-> {}]

\* A simplification that loses the first point.
line_simplify_without_first(coords, tolerance_m, engine) ==
    Tail(simplify(coords, tolerance_m))

\* LineString(coords).simplify(tolerance, preserve_topology=True)
line_simplify(coords, tolerance_m, engine) ==
    IF \A k \in DOMAIN coords : IsFinite(coords[k])
    THEN simplify(coords, tolerance_m)
    ELSE PointsOf(KeepPoints(coords, engine.keep))

simplify_coords_empty_kept(coords, tolerance_m, engine, k) ==
    IF Len(coords) < 3 THEN coords
    ELSE IF k \in engine.empty THEN <<>>
    ELSE line_simplify(coords, tolerance_m, engine)

\* simplify_geometry on the k-th point sequence of a MultiLineString: the
\* guard on fewer than 3 points, the engine, and the guard on an empty
\* result.
simplify_coords(coords, tolerance_m, engine, k) ==
    IF Len(coords) < 3 THEN coords
    ELSE IF k \in engine.empty THEN coords
    ELSE line_simplify(coords, tolerance_m, engine)

simplify_geometry_short_dropped(geometry, tolerance_m, engine) ==
    IF geometry.type = "LineString"
    THEN IF 1 \in engine.empty THEN geometry
         ELSE IF Len(geometry.coordinates) < 3 THEN LineStringGeom(<<>>)
         ELSE LineStringGeom(
                  line_simplify(geometry.coordinates, tolerance_m, engine))
    ELSE IF geometry.type = "MultiLineString"
    THEN MultiLineStringGeom(
             [k \in DOMAIN geometry.coordinates |->
                 simplify_coords(geometry.coordinates[k], tolerance_m, engine, k)])
    ELSE geometry

simplify_geometry_first_constituent_only(geometry, tolerance_m, engine) ==
    IF geometry.type = "LineString"
    THEN IF Len(geometry.coordinates) < 3 \/ 1 \in engine.empty THEN geometry
         ELSE LineStringGeom(
                  line_simplify(geometry.coordinates, tolerance_m, engine))
    ELSE IF geometry.type = "MultiLineString"
    THEN MultiLineStringGeom(
             [k \in DOMAIN geometry.coordinates |->
                 IF k = 1
                 THEN simplify_coords(geometry.coordinates[k], tolerance_m, engine, k)
                 ELSE geometry.coordinates[k]])
    ELSE geometry

\* simplify_geometry(geometry_dict, tolerance_meters)
simplify_geometry(geometry, tolerance_m, engine) ==
    IF geometry.type = "LineString"
    THEN IF Len(geometry.coordinates) < 3 \/ 1 \in engine.empty THEN geometry
         ELSE LineStringGeom(
                  line_simplify(geometry.coordinates, tolerance_m, engine))
    ELSE IF geometry.type = "MultiLineString"
    THEN MultiLineStringGeom(
             [k \in DOMAIN geometry.coordinates |->
                 simplify_coords(geometry.coordinates[k], tolerance_m, engine, k)])
    ELSE geometry

----------------------------------------------------------------------------
(* 10_douglas_peucker_downsample.py: the projection and the batch          *)

\* pyproj's transformer between WGS84 and UTM zone 49N, on a grid: inside
\* the domain of the projection (longitudes within DomainHalfWidth of the
\* central meridian) a geographic unit is PlanarScale planar units, and the
\* central meridian lies at the false easting; outside it pyproj's
\* transform (errcheck off) returns infinity for both coordinates.
CentralMeridian == 3
DomainHalfWidth == 3
FalseEasting == 5
PlanarScale == 2

InProjectionDomain(coord) ==
    /\ coord[1] >= CentralMeridian - DomainHalfWidth
    /\ coord[1] <= CentralMeridian + DomainHalfWidth

\* transformer.transform(lon, lat), WGS84 to UTM
to_utm(coord) ==
    IF IsFinite(coord) /\ InProjectionDomain(coord)
    THEN <<FalseEasting + PlanarScale * (coord[1] - CentralMeridian),
           PlanarScale * coord[2]>>
    ELSE <<Inf, Inf>>

\* transformer.transform(x, y), UTM to WGS84
to_wgs84(coord) ==
    IF IsFinite(coord)
    THEN <<CentralMeridian + (coord[1] - FalseEasting) \div PlanarScale,
           coord[2] \div PlanarScale>>
    ELSE <<Inf, Inf>>

transform_coordinates_reversed(geometry) ==
    IF geometry.type = "LineString"
    THEN LineStringGeom(Reverse([k \in DOMAIN geometry.coordinates |->
                                    to_utm(geometry.coordinates[k])]))
    ELSE IF geometry.type = "MultiLineString"
    THEN MultiLineStringGeom(
             [k \in DOMAIN geometry.coordinates |->
                 [n \in DOMAIN geometry.coordinates[k] |->
                     to_utm(geometry.coordinates[k][n])]])
    ELSE geometry

\* transform_coordinates(geometry_dict): every coordinate of a LineString
\* or a MultiLineString is transformed, any other geometry is returned as
\* it is.
transform_coordinates(geometry) ==
    IF geometry.type = "LineString"
    THEN LineStringGeom([k \in DOMAIN geometry.coordinates |->
                            to_utm(geometry.coordinates[k])])
    ELSE IF geometry.type = "MultiLineString"
    THEN MultiLineStringGeom(
             [k \in DOMAIN geometry.coordinates |->
                 [n \in DOMAIN geometry.coordinates[k] |->
                     to_utm(geometry.coordinates[k][n])]])
    ELSE geometry

\* transform_coordinates_back(geometry_dict)
transform_coordinates_back(geometry) ==
    IF geometry.type = "LineString"
    THEN LineStringGeom([k \in DOMAIN geometry.coordinates |->
                            to_wgs84(geometry.coordinates[k])])
    ELSE IF geometry.type = "MultiLineString"
    THEN MultiLineStringGeom(
             [k \in DOMAIN geometry.coordinates |->
                 [n \in DOMAIN geometry.coordinates[k] |->
                     to_wgs84(geometry.coordinates[k][n])]])
    ELSE geometry

\* process_feature, given what simplify_geometry returns for the
\* transformed geometry
processed_feature(feature, simplified_utm_geometry) ==
    [geometry |-> transform_coordinates_back(simplified_utm_geometry),
     properties |-> feature.properties]

\* process_feature(feature, tolerance_meters)
process_feature(feature, tolerance_m, engine) ==
    processed_feature(feature,
        simplify_geometry(transform_coordinates(feature.geometry),
                          tolerance_m, engine))

----------------------------------------------------------------------------
(* simplify_geometry on planar geometries                                  *)

\* Planar points: five on a straight line, and one off it.
PlanarPoints == {<<0, 0>>, <<1, 0>>, <<2, 0>>, <<3, 0>>, <<4, 0>>, <<2, 2>>}

Tolerances == {0, 1, 2}

PlanarLines == SeqsUpTo(PlanarPoints, MaxPoints)

\* The lines that make up the MultiLineStrings: a line too short to
\* simplify, a straight line, a line with a bend, a closed line.
ConstituentLines ==
    {<< <<0, 0>>, <<1, 0>> >>,
     << <<0, 0>>, <<1, 0>>, <<2, 0>> >>,
     << <<0, 0>>, <<2, 2>>, <<4, 0>> >>,
     << <<0, 0>>, <<2, 2>>, <<4, 0>>, <<0, 0>> >>}

PlanarGeometries ==
    {LineStringGeom(l) : l \in PlanarLines}
        \cup {MultiLineStringGeom(ls) : ls \in SeqsUpTo(ConstituentLines, MaxConstituents)}
        \cup {Placeholder}

\* The sequences of a geometry that reach the engine: those of 3 points or
\* more.
EngineCalls(geometry) ==
    IF geometry.type = "LineString"
    THEN IF Len(geometry.coordinates) >= 3 THEN {1} ELSE {}
    ELSE IF geometry.type = "MultiLineString"
    THEN {k \in DOMAIN geometry.coordinates : Len(geometry.coordinates[k]) >= 3}
    ELSE {}

\* One call of simplify_geometry, recorded.
Pass(geometry, tolerance_m, engine) ==
    [geometry |-> geometry, empty |-> engine.empty,
     result |-> simplify_geometry(geometry, tolerance_m, engine)]

simplifyOnlyVars ==
    <<pc, ways_files, required_node_ids, node_stream, found_count, files_done,
      node_coords, ways_data, updated_features, missing_nodes, way_lookup,
      relations_osm, relations_data, combined_features, used_way_ids,
      standalone_features, calls, features, processed_features, output_written>>

InitSimplify ==
    /\ pc = "simplify"
    /\ MaterializeIdle
    /\ AssemblyIdle
    /\ features = <<>>
    /\ processed_features = <<>>
    /\ output_written = FALSE
    /\ tolerance_meters \in Tolerances
    /\ passes = <<>>

\* simplify_geometry is called on a geometry; the engine may report an
\* empty result for any of the sequences it is given.
SimplifyGeometry ==
    /\ pc = "simplify"
    /\ passes = <<>>
    /\ \E geometry \in PlanarGeometries :
           \E empty \in SUBSET EngineCalls(geometry) :
               passes' = <<Pass(geometry, tolerance_meters,
                                [empty |-> empty, keep |-> {}])>>
    /\ UNCHANGED tolerance_meters
    /\ UNCHANGED simplifyOnlyVars

\* simplify_geometry is called again, on its own result.
SimplifyAgain ==
    /\ pc = "simplify"
    /\ Len(passes) = 1
    /\ passes' = Append(passes, Pass(passes[1].result, tolerance_meters, RegularEngine))
    /\ UNCHANGED tolerance_meters
    /\ UNCHANGED simplifyOnlyVars

NextSimplify == SimplifyGeometry \/ SimplifyAgain

SpecSimplify == InitSimplify /\ [][NextSimplify]_vars

----------------------------------------------------------------------------
(* downsample_railways: the loop over the features                         *)

\* The sequences of a transformed geometry that reach the engine with a
\* coordinate that is not finite.
NonFiniteCalls(geometry) ==
    {k \in EngineCalls(geometry) :
        LET coords == IF geometry.type = "LineString" THEN geometry.coordinates
                      ELSE geometry.coordinates[k]
        IN  \E n \in DOMAIN coords : ~IsFinite(coords[n])}

\* What the engine may do on a transformed geometry, short of raising.
EngineOutcomes(geometry) ==
    [empty : SUBSET EngineCalls(geometry),
     keep : IF NonFiniteCalls(geometry) = {} THEN {{}}
            ELSE SUBSET (2..(MaxFeaturePoints - 1))]

\* The feature the loop is at.
NextFeature == features[Len(processed_features) + 1]

\* A feature without a location: "geometry": null in the input file, None
\* for feature.get("geometry", {}).
NoGeometry == [type |-> "null"]

downsampleOnlyVars ==
    <<ways_files, required_node_ids, node_stream, found_count, files_done,
      node_coords, ways_data, updated_features, missing_nodes, way_lookup,
      relations_osm, relations_data, combined_features, used_way_ids,
      standalone_features, calls>>

\* The end of an iteration of the loop of downsample_railways: the feature
\* built from what simplify_geometry returned (pass) is appended.
AppendProcessed(feature, pass) ==
    /\ processed_features' =
           Append(processed_features, processed_feature(feature, pass.result))
    /\ passes' = Append(passes, pass)

\* One iteration of the loop of downsample_railways in which
\* process_feature returns.
ProcessFeature ==
    /\ pc = "downsample"
    /\ Len(processed_features) < Len(features)
    /\ NextFeature.geometry # NoGeometry
    /\ \E engine \in EngineOutcomes(transform_coordinates(NextFeature.geometry)) :
           AppendProcessed(NextFeature,
               Pass(transform_coordinates(NextFeature.geometry),
                    tolerance_meters, engine))
    /\ UNCHANGED <<pc, features, tolerance_meters, output_written>>
    /\ UNCHANGED downsampleOnlyVars

\* One iteration that raises: geometry.get on a feature without a
\* geometry, or the engine on a line with a coordinate that is not finite.
\* Nothing catches the exception in process_feature or in
\* downsample_railways, and the script ends.
ProcessFeatureRaises ==
    /\ pc = "downsample"
    /\ Len(processed_features) < Len(features)
    /\ \/ NextFeature.geometry = NoGeometry
       \/ NonFiniteCalls(transform_coordinates(NextFeature.geometry)) # {}
    /\ pc' = "aborted"
    /\ UNCHANGED <<features, tolerance_meters, processed_features, passes,
                   output_written>>
    /\ UNCHANGED downsampleOnlyVars

\* After the loop: the output file is written.
WriteOutput ==
    /\ pc = "downsample"
    /\ Len(processed_features) = Len(features)
    /\ output_written' = TRUE
    /\ pc' = "output"
    /\ UNCHANGED <<features, tolerance_meters, processed_features, passes>>
    /\ UNCHANGED downsampleOnlyVars

\* Geographic points: three inside the domain of the projection, one
\* outside it.
GeoPoints == {<<0, 0>>, <<2, 0>>, <<1, 1>>, <<7, 0>>}

GeoLines == {l \in SeqsUpTo(GeoPoints, MaxFeaturePoints) : Len(l) >= 2}

\* The features of the input file: lines as the assembly stage writes
\* them, a line of two sequences, a Point, and a feature without a
\* geometry.
InputFeatures ==
    {[geometry |-> g, properties |-> [osm_id |-> 1]] :
        g \in {LineStringGeom(l) : l \in GeoLines}
                \cup {MultiLineStringGeom(<< << <<0, 0>>, <<2, 0>> >>,
                                             << <<1, 1>>, <<2, 0>>, <<0, 0>> >> >>),
                      Placeholder, NoGeometry}}

InitDownsample ==
    /\ pc = "downsample"
    /\ MaterializeIdle
    /\ AssemblyIdle
    /\ features \in {fs \in SeqsUpTo(InputFeatures, MaxFeatures) : fs # <<>>}
    /\ tolerance_meters \in Tolerances
    /\ processed_features = <<>>
    /\ passes = <<>>
    /\ output_written = FALSE

NextDownsample == ProcessFeature \/ ProcessFeatureRaises \/ WriteOutput

SpecDownsample == InitDownsample /\ [][NextDownsample]_vars

\* 8_combine_railway_polylines.py followed by
\* 10_douglas_peucker_downsample.py, which reads the file the former wrote:
\* the relation features, then the standalone ones.
LoadFeatures ==
    /\ pc = "done"
    /\ features' = combined_features \o standalone_features
    /\ tolerance_meters' \in Tolerances \ {0}
    /\ pc' = "downsample"
    /\ UNCHANGED <<processed_features, passes, output_written>>
    /\ UNCHANGED downsampleOnlyVars

NextPipeline ==
    MergeRelation \/ ProcessStandaloneWays \/ LoadFeatures \/ ProcessFeature
        \/ WriteOutput

SpecPipeline == InitMerge /\ [][NextPipeline]_vars

----------------------------------------------------------------------------
(* Properties of the way materializer                                      *)

\* The positions of node_ids whose id is in the table.
ResolvedPositions(node_ids, table) ==
    {j \in DOMAIN node_ids : node_ids[j] \in DOMAIN table}

InTable(n) == n \in DOMAIN node_coords

\* The ways of the file that have a non-empty node_ids list.
WaysWithNodeIds ==
    {i \in DOMAIN updated_features :
        Get(ways_data[i].properties, "node_ids", <<>>) # <<>>}

\* C1: for every way with a non-empty node_ids list, with r the number of
\* its node ids (counted with repetition) found in the table: r = 0 leaves
\* the geometry as it was on input, r = 1 sets a Point at that coordinate,
\* r >= 2 sets a LineString.
C1_GeometryByResolvedCount ==
    \A i \in WaysWithNodeIds :
        LET ids == ways_data[i].properties.node_ids
            pos == ResolvedPositions(ids, node_coords)
            r == Cardinality(pos)
            g == updated_features[i].geometry
        IN  /\ r = 0 => g = ways_data[i].geometry
            /\ r = 1 => \E j \in pos :
                   g = [type |-> "Point", coordinates |-> node_coords[ids[j]]]
            /\ r >= 2 => g.type = "LineString"

\* A way with exactly one resolved node id among several has become a Point.
C1_Witness ==
    \E i \in WaysWithNodeIds :
        LET ids == ways_data[i].properties.node_ids
        IN  /\ Len(ids) >= 2
            /\ Cardinality(ResolvedPositions(ids, node_coords)) = 1
            /\ updated_features[i].geometry.type = "Point"
            /\ updated_features[i].geometry # ways_data[i].geometry

\* C2: for every way with at least 2 resolved node ids, the LineString's
\* coordinate list is node_ids with the unresolved ids deleted and every
\* remaining id replaced by its table coordinate (same length as the count
\* of resolved ids, original order, nothing substituted).
C2_ResolvedSubsetInOrder ==
    \A i \in WaysWithNodeIds :
        LET ids == ways_data[i].properties.node_ids
            kept == SelectSeq(ids, InTable)
            g == updated_features[i].geometry
        IN  Len(kept) >= 2 =>
                /\ g.type = "LineString"
                /\ Len(g.coordinates) =
                       Cardinality(ResolvedPositions(ids, node_coords))
                /\ g.coordinates = [j \in 1..Len(kept) |-> node_coords[kept[j]]]

\* Scenario D: a way of three node ids whose middle one is absent from the
\* table became the LineString of the other two, in order.
C2_Witness ==
    \E i \in WaysWithNodeIds :
        LET ids == ways_data[i].properties.node_ids
        IN  /\ Len(ids) = 3
            /\ ids[1] # ids[3]
            /\ ResolvedPositions(ids, node_coords) = {1, 3}
            /\ updated_features[i].geometry =
                   LineStringGeom(<<node_coords[ids[1]], node_coords[ids[3]]>>)

\* The node ids that the ways of the files that can be opened refer to.
ReferencedNodeIds ==
    {n \in NodeIds :
        \E i \in DOMAIN ways_files :
            /\ ways_files[i].found
            /\ \E k \in DOMAIN ways_files[i].features :
                   /\ "node_ids" \in DOMAIN ways_files[i].features[k].properties
                   /\ n \in Range(ways_files[i].features[k].properties.node_ids)}

\* The ways file the loop of main went through last.
LastFile == ways_files[files_done]

\* C21: once collected, the required set is the set of the node ids of the
\* ways of the files that can be opened; after any nodes of the stream the
\* table has entries for ids of the required set only; a way's node id
\* that is not in the table is noted as missing and the way is still
\* emitted; and the loop over the ways files leaves the table as it is.
C21_TableWithinRequiredSet ==
    /\ [](/\ pc # "collect" => required_node_ids = ReferencedNodeIds
          /\ DOMAIN node_coords \subseteq required_node_ids
          /\ (files_done > 0 /\ LastFile.found) =>
                 /\ Len(updated_features) = Len(LastFile.features)
                 /\ file_node_ids(LastFile) \ DOMAIN node_coords
                        \subseteq missing_nodes)
    /\ [][pc = "files" => node_coords' = node_coords]_vars

\* The stream delivered a valid node that no way refers to and a valid
\* node that is required; the first is not in the table, the second is;
\* and a ways file with a node id that is not in the table was gone
\* through.
C21_Witness ==
    /\ pc = "complete"
    /\ \E k \in DOMAIN node_stream :
           /\ node_stream[k].valid
           /\ node_stream[k].id \notin required_node_ids
           /\ node_stream[k].id \notin DOMAIN node_coords
    /\ \E k \in DOMAIN node_stream :
           /\ node_stream[k].valid
           /\ node_stream[k].id \in DOMAIN node_coords
    /\ files_done > 0
    /\ LastFile.found
    /\ file_node_ids(LastFile) \ DOMAIN node_coords # {}

\* C22: a node id that is not in the table does not end the
\* materialization: every way of the file is emitted, with the coordinates
\* that were found, a Point, or the geometry it had; the set whose size
\* update_way_coordinates returns is the set of the distinct node ids of
\* the file that are not in the table; and main goes on with the next file.
C22_UnresolvedNeverAborts ==
    /\ pc \in {"collect", "nodes", "files", "complete"}
    /\ pc = "complete" => files_done = Len(ways_files)
    /\ (files_done > 0 /\ LastFile.found) =>
           /\ Len(updated_features) = Len(LastFile.features)
           /\ \A k \in DOMAIN updated_features :
                  /\ updated_features[k].properties.osm_id =
                         LastFile.features[k].properties.osm_id
                  /\ \/ updated_features[k].geometry = LastFile.features[k].geometry
                     \/ updated_features[k].geometry.type = "Point"
                     \/ /\ updated_features[k].geometry.type = "LineString"
                        /\ Len(updated_features[k].geometry.coordinates) <=
                               Len(LastFile.features[k].properties.node_ids)
           /\ missing_nodes = file_node_ids(LastFile) \ DOMAIN node_coords

\* main went through two files: the first has node ids that are not in the
\* table, the second, of two ways that share a node id that is not in the
\* table and have one that is, was processed after it.
C22_Witness ==
    /\ pc = "complete"
    /\ files_done = 2
    /\ ways_files[1].found
    /\ file_node_ids(ways_files[1]) \ DOMAIN node_coords # {}
    /\ Len(ways_data) = 2
    /\ Len(updated_features) = 2
    /\ missing_nodes = {1}
    /\ 3 \in DOMAIN node_coords

\* C27: materialization changes nothing of a way but its geometry: the
\* ways written are the ways of the file, once each and in file order, each
\* with the property mapping it had, and a way whose node_ids list is empty
\* or missing is written as it was read.
C27_OnlyGeometryChanges ==
    (files_done > 0 /\ LastFile.found) =>
        /\ ways_data = LastFile.features
        /\ Len(updated_features) = Len(ways_data)
        /\ \A k \in DOMAIN ways_data :
               /\ DOMAIN updated_features[k] = DOMAIN ways_data[k]
               /\ updated_features[k].properties = ways_data[k].properties
               /\ Get(ways_data[k].properties, "node_ids", <<>>) = <<>> =>
                      updated_features[k] = ways_data[k]

\* A file of two ways was gone through after a file of ways without node
\* ids: its first way was given a Point and its second a LineString, and
\* both kept their osm_id and node_ids.
C27_Witness ==
    /\ files_done = 2
    /\ ways_files[1].found
    /\ Len(ways_files[1].features) = 2
    /\ file_node_ids(ways_files[1]) = {}
    /\ Len(ways_data) = 2
    /\ updated_features[1].geometry.type = "Point"
    /\ updated_features[1].geometry # ways_data[1].geometry
    /\ updated_features[2].geometry.type = "LineString"
    /\ updated_features[1].properties.osm_id # updated_features[2].properties.osm_id
    /\ updated_features[2].properties.node_ids = <<3, 1>>

\* C28: after any nodes of the stream, the same node more than once
\* included, found_count is the number of distinct required node ids that
\* have a coordinate in the table: it is at most the size of the required
\* set, and the missing count reported is the number of required ids
\* without a coordinate.
C28_FoundCountIsDistinctFound ==
    pc # "collect" =>
        /\ found_count = Cardinality(required_node_ids \cap DOMAIN node_coords)
        /\ found_count <= Cardinality(required_node_ids)
        /\ missing_count(required_node_ids, found_count) =
               Cardinality(required_node_ids \ DOMAIN node_coords)

----------------------------------------------------------------------------
(* Properties of the route assembler                                       *)

\* Way id is in the lookup with a LineString of at least 2 points.
QualifyingWay(id) ==
    /\ id \in DOMAIN way_lookup
    /\ way_lookup[id].geometry.type = "LineString"
    /\ Len(way_lookup[id].geometry.coordinates) >= 2

IsQualifyingWayMember(m) == m.type = "way" /\ QualifyingWay(m.ref)

\* The point sequences of the way-typed members of OSM relation r whose way
\* qualifies, in member order.
QualifyingWaySequences(r) ==
    LET ms == SelectSeq(r.members, IsQualifyingWayMember)
    IN  [j \in DOMAIN ms |-> way_lookup[ms[j].ref].geometry.coordinates]

\* The relations for which the merge step was reached and did not raise.
MergedCalls ==
    {k \in DOMAIN calls : calls[k].line_strings # <<>> /\ ~calls[k].raised}

Endpoints(line) == {line[1], line[Len(line)]}

\* The lines reachable from the lines S by exact endpoint matching.
RECURSIVE EndpointClosure(_, _)
EndpointClosure(lines, S) ==
    LET T == S \cup {j \in DOMAIN lines :
                        \E i \in S : Endpoints(lines[i]) \cap Endpoints(lines[j]) # {}}
    IN  IF T = S THEN S ELSE EndpointClosure(lines, T)

\* The connected components of the lines under endpoint matching.
Components(lines) == {EndpointClosure(lines, {i}) : i \in DOMAIN lines}

RECURSIVE SumLen(_)
SumLen(lines) ==
    IF lines = <<>> THEN 0 ELSE Len(Head(lines)) + SumLen(Tail(lines))

\* How many ends of the lines lie at coordinate c.
EndCount(lines, c) ==
    Cardinality({i \in DOMAIN lines : lines[i][1] = c})
    + Cardinality({i \in DOMAIN lines : lines[i][Len(lines[i])] = c})

\* No coordinate is the end of more than two line ends: the lines of a
\* component form a simple path or a ring.
NoBranchPoint(lines) ==
    \A i \in DOMAIN lines : \A c \in Endpoints(lines[i]) : EndCount(lines, c) <= 2

\* No line has two equal consecutive points.
NoRepeatedPoint(lines) ==
    \A i \in DOMAIN lines : \A j \in 1..(Len(lines[i]) - 1) :
        lines[i][j] # lines[i][j + 1]

ScenarioA == << << <<0, 0>>, <<1, 0>> >>, << <<1, 0>>, <<2, 0>> >> >>

\* C3 as stated: the merge input of every relation is exactly the point
\* sequences of its way-typed members whose way has a LineString of at least
\* 2 points; a node-typed member never contributes geometry.
C3_MergeInputOnlyWayMembers ==
    \A k \in DOMAIN calls :
        calls[k].line_strings = QualifyingWaySequences(relations_osm[k])

\* The members of relation k are distinct ways.
DistinctMembers(k) ==
    \A i, j \in DOMAIN relations_osm[k].members :
        relations_osm[k].members[i].ref = relations_osm[k].members[j].ref => i = j

\* No line ends where it starts.
NoClosedLine(lines) == \A i \in DOMAIN lines : lines[i][1] # lines[i][Len(lines[i])]

\* Relation k in the cases most favourable to a merge: its members are
\* distinct ways, and no way has a repeated point or is closed.
PlainWays(k) ==
    /\ DistinctMembers(k)
    /\ NoRepeatedPoint(calls[k].line_strings)
    /\ NoClosedLine(calls[k].line_strings)

\* C4 as stated, read in its favour (the merge step does not raise, the
\* members are distinct ways, no way has a repeated point or is closed):
\* whenever the
\* qualifying ways form one connected component under endpoint matching,
\* the result is a single LineString of sum of the point counts minus the
\* number of merges points.
C4_Original_ConnectedGivesLineString ==
    \A k \in MergedCalls :
        LET lines == calls[k].line_strings
        IN  (PlainWays(k) /\ Cardinality(Components(lines)) = 1) =>
                /\ calls[k].geometry.type = "LineString"
                /\ Len(calls[k].geometry.coordinates) =
                       SumLen(lines) - (Len(lines) - 1)

\* C4 as amended: whenever the merge step does not fail and the point
\* sequences collected for the merge have no repeated consecutive point, no
\* branch point (no coordinate at which more than two line ends meet) and
\* form one connected component under endpoint matching, the result is a
\* single LineString of sum of the point counts minus (number of lines - 1)
\* points; way1 = [(0,0),(1,0)], way2 = [(1,0),(2,0)] give
\* LineString [(0,0),(1,0),(2,0)].
C4_SimpleComponentGivesLineString ==
    \A k \in MergedCalls :
        LET lines == calls[k].line_strings
        IN  /\ (/\ NoRepeatedPoint(lines)
                /\ NoBranchPoint(lines)
                /\ Cardinality(Components(lines)) = 1)
               => /\ calls[k].geometry.type = "LineString"
                  /\ Len(calls[k].geometry.coordinates) =
                         SumLen(lines) - (Len(lines) - 1)
            /\ lines = ScenarioA =>
                   calls[k].geometry =
                       LineStringGeom(<< <<0, 0>>, <<1, 0>>, <<2, 0>> >>)

\* Three lines that share endpoints two by two without a branch point, one
\* of them of three points, were merged into one LineString of 7 - 2 points.
C4_Witness ==
    \E k \in MergedCalls :
        LET lines == calls[k].line_strings
        IN  /\ Len(lines) = 3 /\ SumLen(lines) = 7
            /\ NoRepeatedPoint(lines) /\ NoBranchPoint(lines)
            /\ Cardinality(Components(lines)) = 1
            /\ calls[k].geometry.type = "LineString"
            /\ Len(calls[k].geometry.coordinates) = 5

\* C5 as stated, read in its favour (the merge step does not raise, the
\* members are distinct ways, no way has a repeated point or is closed):
\* whenever the
\* qualifying ways form k >= 2 disjoint components, the result is a
\* MultiLineString of exactly k sequences.
C5_Original_ComponentsGiveSequences ==
    \A k \in MergedCalls :
        LET lines == calls[k].line_strings
            n == Cardinality(Components(lines))
        IN  (PlainWays(k) /\ n >= 2) =>
                /\ calls[k].geometry.type = "MultiLineString"
                /\ Len(calls[k].geometry.coordinates) = n

\* C5 as amended: whenever the merge step does not fail and the point
\* sequences collected for the merge have no repeated consecutive point, no
\* branch point, and form k >= 2 disjoint components under endpoint
\* matching, the result is a MultiLineString of exactly k sequences.
C5_SimpleComponentsGiveSequences ==
    \A k \in MergedCalls :
        LET lines == calls[k].line_strings
            n == Cardinality(Components(lines))
        IN  (NoRepeatedPoint(lines) /\ NoBranchPoint(lines) /\ n >= 2) =>
                /\ calls[k].geometry.type = "MultiLineString"
                /\ Len(calls[k].geometry.coordinates) = n

\* Three ways in two components (a chain of two and a way apart) were merged
\* into a MultiLineString of two sequences.
C5_Witness ==
    \E k \in MergedCalls :
        LET lines == calls[k].line_strings
        IN  /\ Len(lines) = 3 /\ DistinctMembers(k)
            /\ NoRepeatedPoint(lines) /\ NoBranchPoint(lines)
            /\ Cardinality(Components(lines)) = 2
            /\ calls[k].geometry.type = "MultiLineString"
            /\ Len(calls[k].geometry.coordinates) = 2

\* The merge step of call k failed: linemerge raised, or returned neither a
\* LineString nor a MultiLineString.
MergeFailed(k) ==
    \/ calls[k].raised
    \/ linemerge(calls[k].line_strings).type \notin {"LineString", "MultiLineString"}

\* C6: whenever the merge step fails, the result is the MultiLineString of
\* the qualifying ways' point sequences, unconnected and in member order;
\* and a relation with at least one qualifying way never ends absent.
C6_FallbackIsUnmergedInput ==
    \A k \in DOMAIN calls :
        LET expected == QualifyingWaySequences(relations_osm[k])
        IN  /\ expected # <<>> => calls[k].geometry # None
            /\ (expected # <<>> /\ MergeFailed(k)) =>
                   calls[k].geometry = MultiLineStringGeom(expected)

\* linemerge raised on two ways that share an endpoint, and the result holds
\* them unconnected.
C6_Witness ==
    \E k \in DOMAIN calls :
        /\ calls[k].raised
        /\ calls[k].line_strings = ScenarioA
        /\ calls[k].geometry = MultiLineStringGeom(ScenarioA)

\* The way ids that are way-typed members of OSM relation r.
WayMemberIds(r) == {r.members[j].ref : j \in {i \in DOMAIN r.members : r.members[i].type = "way"}}

\* The standalone features emitted for way id.
StandaloneOf(id) ==
    {j \in DOMAIN standalone_features :
        standalone_features[j].properties.osm_id = id}

\* C7 as stated: after both passes every way with a LineString of at least
\* 2 points is either a member of a relation that produced a feature, and
\* then has no standalone feature, or is referenced by no relation and has
\* exactly one standalone feature, which carries its own geometry.
C7_EachWayRepresentedOnce ==
    pc = "done" =>
        \A id \in DOMAIN way_lookup :
            QualifyingWay(id) =>
                \/ /\ \E k \in DOMAIN relations_osm :
                          /\ id \in WayMemberIds(relations_osm[k])
                          /\ calls[k].geometry # None
                   /\ StandaloneOf(id) = {}
                \/ /\ \A k \in DOMAIN relations_osm :
                          id \notin WayMemberIds(relations_osm[k])
                   /\ Cardinality(StandaloneOf(id)) = 1
                   /\ \A j \in StandaloneOf(id) :
                          standalone_features[j].geometry = way_lookup[id].geometry

\* Every key of the input mapping is in the output mapping with its value.
CarriedThrough(input, output) ==
    \A key \in DOMAIN input : key \in DOMAIN output /\ output[key] = input[key]

\* C9 as stated: every input property of a relation, and of a standalone
\* way, is in its output feature with the same key and the same value.
C9_InputPropertiesCarriedThrough ==
    /\ \A i \in DOMAIN combined_features :
           \E k \in DOMAIN relations_data :
               /\ relations_data[k].properties.osm_id =
                      combined_features[i].properties.osm_id
               /\ CarriedThrough(relations_data[k].properties,
                                 combined_features[i].properties)
    /\ \A j \in DOMAIN standalone_features :
           \E id \in DOMAIN way_lookup :
               /\ id = standalone_features[j].properties.osm_id
               /\ CarriedThrough(way_lookup[id].properties,
                                 standalone_features[j].properties)

\* C10: in every emitted feature geometry_type is the type of the geometry,
\* which is LineString or MultiLineString; source is "relation" for the
\* features built from relations and "standalone_way" for those built from
\* unreferenced ways.
C10_GeometryTypeAndSource ==
    /\ \A i \in DOMAIN combined_features :
           LET f == combined_features[i]
           IN  /\ f.properties.geometry_type = f.geometry.type
               /\ f.geometry.type \in {"LineString", "MultiLineString"}
               /\ f.properties.source = "relation"
    /\ \A j \in DOMAIN standalone_features :
           LET f == standalone_features[j]
           IN  /\ f.properties.geometry_type = f.geometry.type
               /\ f.geometry.type \in {"LineString", "MultiLineString"}
               /\ f.properties.source = "standalone_way"

\* A relation feature of a MultiLineString and a standalone feature were
\* emitted in one run.
C10_Witness ==
    /\ pc = "done"
    /\ \E i \in DOMAIN combined_features :
           combined_features[i].geometry.type = "MultiLineString"
    /\ standalone_features # <<>>

\* The features emitted for the relation with this osm_id.
CombinedOf(osm_id) ==
    {i \in DOMAIN combined_features :
        combined_features[i].properties.osm_id = osm_id}

\* C23 as stated: a relation without a qualifying member (no members, or
\* no member that is a way with a LineString of at least 2 points in the
\* lookup) gives no geometry, and no feature is emitted for it.
C23_NoQualifyingMemberGivesNothing ==
    \A k \in DOMAIN calls :
        QualifyingWaySequences(relations_osm[k]) = <<>> =>
            /\ calls[k].geometry = None
            /\ CombinedOf(relations_osm[k].id) = {}

\* The strands of a merged geometry, in order.
Strands(geometry) ==
    IF geometry.type = "LineString" THEN <<geometry.coordinates>>
    ELSE geometry.coordinates

\* line, forwards or reversed, is a contiguous run of strand.
IsRunOf(line, strand) ==
    \E i \in 1..(Len(strand) - Len(line) + 1) :
        SubSeq(strand, i, i + Len(line) - 1) \in {line, Reverse(line)}

\* The number of segments of a list of point sequences.
Segments(seqs) == SumLen(seqs) - Len(seqs)

\* Every line is a run of a strand of the geometry, the strands have as
\* many segments as the lines (no line is left out, none is used twice),
\* and the geometry is a LineString when there is one strand and a
\* MultiLineString when there are more.
ConsumesEachOnce(lines, geometry) ==
    /\ \A i \in DOMAIN lines :
           \E n \in DOMAIN Strands(geometry) : IsRunOf(lines[i], Strands(geometry)[n])
    /\ Segments(Strands(geometry)) = Segments(lines)
    /\ geometry.type = "LineString" <=> Len(Strands(geometry)) = 1
    /\ geometry.type = "MultiLineString" <=> Len(Strands(geometry)) > 1

\* C24 as stated, read in its favour (the merge step does not raise, the
\* members are distinct ways): the merge consumes every qualifying way
\* exactly once.
C24_Original_EveryWayConsumedOnce ==
    \A k \in MergedCalls :
        DistinctMembers(k) =>
            ConsumesEachOnce(calls[k].line_strings, calls[k].geometry)

\* C24 as amended: whenever the merge step does not fail and the point
\* sequences collected for the merge have no repeated consecutive point,
\* each of them appears (forwards or reversed) as a contiguous run of a
\* strand of the result, the strands have together as many segments as the
\* sequences (none is dropped, none used twice), and the result is a
\* LineString exactly when one strand results and a MultiLineString exactly
\* when more than one results.
C24_PlainWaysConsumedOnce ==
    \A k \in MergedCalls :
        NoRepeatedPoint(calls[k].line_strings) =>
            ConsumesEachOnce(calls[k].line_strings, calls[k].geometry)

\* Four distinct ways, a chain to a ring of three with a tail, were merged
\* without remainder into more than one strand.
C24_Witness ==
    \E k \in MergedCalls :
        /\ DistinctMembers(k)
        /\ Len(calls[k].line_strings) = 4
        /\ NoRepeatedPoint(calls[k].line_strings)
        /\ Cardinality(Components(calls[k].line_strings)) = 1
        /\ calls[k].geometry.type = "MultiLineString"
        /\ Segments(calls[k].geometry.coordinates) = 5

\* The refs of all members of OSM relation r, as stage 7 saves them.
MemberRefs(r) == {r.members[j].ref : j \in DOMAIN r.members}

\* The way ids of the lookup that are members of a relation that produced
\* a feature.
UsedByRelations ==
    {id \in DOMAIN way_lookup :
        \E k \in DOMAIN calls :
            calls[k].geometry # None /\ id \in MemberRefs(relations_osm[k])}

\* C25: the assembly of a relation depends on the relation and the lookup
\* only: the lookup is never modified; relations with the same members get
\* the same geometry wherever they stand in the file; used_way_ids and the
\* standalone features are determined by the set of the relations (the
\* same for every order); a way of two relations is in the input of both
\* merges and once in used_way_ids.
C25_RelationsIndependent ==
    /\ [](/\ \A k, j \in DOMAIN calls :
                 relations_osm[k].members = relations_osm[j].members =>
                     /\ calls[k].geometry = calls[j].geometry
                     /\ calls[k].line_strings = calls[j].line_strings
          /\ used_way_ids = UsedByRelations
          /\ pc = "done" =>
                 /\ {standalone_features[j].properties.osm_id :
                         j \in DOMAIN standalone_features}
                        = {id \in DOMAIN way_lookup :
                              QualifyingWay(id) /\ id \notin UsedByRelations}
                 /\ \A id \in DOMAIN way_lookup :
                        Cardinality(StandaloneOf(id)) <= 1)
    /\ [][way_lookup' = way_lookup]_vars

\* Two relations with different members both have way 1, a line, as a way
\* member: its points went into both merges, both relations gave a
\* feature, and the way is in used_way_ids and not a standalone feature.
C25_Witness ==
    /\ pc = "done"
    /\ Len(calls) = 2
    /\ relations_osm[1].members # relations_osm[2].members
    /\ \A k \in 1..2 :
           /\ \E j \in DOMAIN relations_osm[k].members :
                  relations_osm[k].members[j] = Member("way", 1)
           /\ \E j \in DOMAIN calls[k].line_strings :
                  calls[k].line_strings[j] = AssembleLine(1)
    /\ calls[1].geometry # calls[2].geometry
    /\ Len(combined_features) = 2
    /\ 1 \in used_way_ids
    /\ StandaloneOf(1) = {}

\* C29 as stated: combined_way_count of a relation feature is the number
\* of its member ways whose geometry was combined into the feature's
\* geometry (the qualifying ways); of a standalone feature it is 1.
C29_CombinedWayCountIsCombinedWays ==
    /\ \A k \in DOMAIN calls :
           \A i \in CombinedOf(relations_osm[k].id) :
               combined_features[i].properties.combined_way_count =
                   Len(QualifyingWaySequences(relations_osm[k]))
    /\ \A j \in DOMAIN standalone_features :
           standalone_features[j].properties.combined_way_count = 1

----------------------------------------------------------------------------
(* Properties of the simplification                                        *)

\* The point sequences of a geometry.
SequencesOf(geometry) ==
    IF geometry.type = "LineString" THEN {geometry.coordinates}
    ELSE IF geometry.type = "MultiLineString" THEN Range(geometry.coordinates)
    ELSE {}

\* The features emitted by the assembly stage and by the simplification.
EmittedFeatures ==
    Range(combined_features) \cup Range(standalone_features)
        \cup Range(processed_features)

\* C11: every constituent point sequence of every LineString or
\* MultiLineString emitted by the assembly stage, and of every geometry the
\* simplification produces from such a feature, has at least 2 points.
C11_SequencesHaveTwoPoints ==
    \A f \in EmittedFeatures :
        /\ f.geometry.type \in {"LineString", "MultiLineString"}
        /\ \A seq \in SequencesOf(f.geometry) : Len(seq) >= 2

\* The output was written with an assembled line of more than 2 points
\* reduced to its 2 ends.
C11_Witness ==
    /\ pc = "output"
    /\ \E k \in DOMAIN processed_features :
           /\ features[k].geometry.type = "LineString"
           /\ Len(features[k].geometry.coordinates) > 2
           /\ Len(processed_features[k].geometry.coordinates) = 2

\* The point sequences of a geometry, in order.
SequenceList(geometry) ==
    IF geometry.type = "LineString" THEN <<geometry.coordinates>>
    ELSE IF geometry.type = "MultiLineString" THEN geometry.coordinates
    ELSE <<>>

\* C12: endpoint preservation: for every point sequence handed to
\* simplify_geometry (a LineString's, or a constituent of a
\* MultiLineString) and every tolerance, the first point of the result
\* sequence is the first point of the input sequence and the last point the
\* last.
C12_EndpointsPreserved ==
    \A p \in DOMAIN passes :
        LET in == SequenceList(passes[p].geometry)
            out == SequenceList(passes[p].result)
        IN  /\ Len(out) = Len(in)
            /\ \A k \in DOMAIN in :
                   in[k] # <<>> =>
                       /\ out[k] # <<>>
                       /\ out[k][1] = in[k][1]
                       /\ out[k][Len(out[k])] = in[k][Len(in[k])]

\* A line of 5 points was reduced by the engine to fewer points, and both
\* ends are where they were.
C12_Witness ==
    \E p \in DOMAIN passes :
        LET in == passes[p].geometry
            out == passes[p].result
        IN  /\ in.type = "LineString" /\ Len(in.coordinates) = 5
            /\ passes[p].empty = {}
            /\ Len(out.coordinates) < 5
            /\ out.coordinates[1] = in.coordinates[1]
            /\ out.coordinates[Len(out.coordinates)] = in.coordinates[5]

\* C13: idempotence: simplifying the result of a simplification again,
\* with the same tolerance, returns it unchanged (the engine reporting no
\* empty result in either call).
C13_Idempotent ==
    (Len(passes) = 2 /\ passes[1].empty = {}) =>
        passes[2].result = passes[1].result

\* The perpendicular distance of p from the line through A and B (from A
\* when B is A), squared, as a fraction.
PointToLineSq(p, A, B) ==
    LET dx == B[1] - A[1]
        dy == B[2] - A[2]
        s == (A[2] - p[2]) * dx - (A[1] - p[1]) * dy
    IN  IF dx * dx + dy * dy = 0 THEN [num |-> DistSq(p, A), den |-> 1]
        ELSE [num |-> s * s, den |-> dx * dx + dy * dy]

\* The recursive reduction by perpendicular distance from the line joining
\* the two ends: the interval i..j of seq collapses to its ends when no
\* interior point is farther than the tolerance from that line, and is
\* split at the (first) farthest point otherwise.
RECURSIVE FarthestFromLine(_, _, _, _, _)
FarthestFromLine(seq, i, j, k, best) ==
    IF k >= j THEN best
    ELSE IF best = i \/ FartherThan(PointToLineSq(seq[k], seq[i], seq[j]),
                                   PointToLineSq(seq[best], seq[i], seq[j]))
         THEN FarthestFromLine(seq, i, j, k + 1, k)
         ELSE FarthestFromLine(seq, i, j, k + 1, best)

RECURSIVE CollapseRule(_, _, _, _)
CollapseRule(seq, tolerance, i, j) ==
    IF j <= i + 1 THEN <<seq[i], seq[j]>>
    ELSE LET far == FarthestFromLine(seq, i, j, i + 1, i)
         IN  IF ~ExceedsTolerance(PointToLineSq(seq[far], seq[i], seq[j]), tolerance)
             THEN <<seq[i], seq[j]>>
             ELSE CollapseRule(seq, tolerance, i, far)
                      \o Tail(CollapseRule(seq, tolerance, far, j))

\* The calls of simplify_geometry on a LineString of 3 points or more that
\* does not end where it starts, the engine reporting no empty result.
OpenLinePasses ==
    {p \in DOMAIN passes :
        /\ passes[p].geometry.type = "LineString"
        /\ Len(passes[p].geometry.coordinates) >= 3
        /\ passes[p].geometry.coordinates[1] #
               passes[p].geometry.coordinates[Len(passes[p].geometry.coordinates)]
        /\ passes[p].empty = {}}

\* C14 as stated, read in its favour (lines that do not end where they
\* start): the result is the recursive reduction by perpendicular distance
\* from the line joining the two ends of each interval.
C14_Original_CollapseByLineDistance ==
    \A p \in OpenLinePasses :
        LET seq == passes[p].geometry.coordinates
        IN  passes[p].result.coordinates =
                CollapseRule(seq, tolerance_meters, 1, Len(seq))

ScenarioC == << <<0, 0>>, <<1, 0>>, <<2, 0>>, <<3, 0>>, <<4, 0>> >>

\* The interior positions of seq farther than the tolerance from the
\* segment between its two ends.
BeyondTolerance(seq, tolerance) ==
    {k \in 2..(Len(seq) - 1) :
        ExceedsTolerance(PointToSegmentSq(seq[k], seq[1], seq[Len(seq)]), tolerance)}

\* C14, amended: for a line of 3 points or more that does not end where it
\* starts, with the distance taken to the segment between the two ends (not
\* to the line through them): when no interior point is farther than the
\* tolerance, the result is exactly the two ends; otherwise the first
\* interior point at the greatest distance is retained between them. The
\* straight 5-point line collapses to its 2 ends.
C14_CollapseBySegmentDistance ==
    \A p \in OpenLinePasses :
        LET seq == passes[p].geometry.coordinates
            out == passes[p].result.coordinates
            beyond == BeyondTolerance(seq, tolerance_meters)
            farthest == {k \in beyond : \A n \in beyond :
                            ~FartherThan(PointToSegmentSq(seq[n], seq[1], seq[Len(seq)]),
                                         PointToSegmentSq(seq[k], seq[1], seq[Len(seq)]))}
        IN  /\ beyond = {} => out = <<seq[1], seq[Len(seq)]>>
            /\ beyond # {} =>
                   /\ Len(out) >= 3
                   /\ \E n \in 2..(Len(out) - 1) :
                          out[n] = seq[CHOOSE k \in farthest : \A m \in farthest : k <= m]
            /\ seq = ScenarioC => out = << <<0, 0>>, <<4, 0>> >>

\* The straight 5-point line was simplified with a tolerance above 0 and
\* collapsed to its two ends.
C14_Witness ==
    \E p \in OpenLinePasses :
        /\ tolerance_meters > 0
        /\ passes[p].geometry.coordinates = ScenarioC
        /\ passes[p].result.coordinates = << <<0, 0>>, <<4, 0>> >>

\* C15: a point sequence of fewer than 3 points comes out of
\* simplify_geometry as it went in, same points in the same order, for a
\* LineString and for each constituent of a MultiLineString, whatever the
\* tolerance.
C15_ShortSequencesUnchanged ==
    \A p \in DOMAIN passes :
        LET in == SequenceList(passes[p].geometry)
            out == SequenceList(passes[p].result)
        IN  /\ Len(out) = Len(in)
            /\ \A k \in DOMAIN in : Len(in[k]) < 3 => out[k] = in[k]

\* A MultiLineString with a 2-point constituent next to one that the
\* engine reduced was simplified with a tolerance above 0, and then
\* simplified again: the 2-point constituent is as it was.
C15_Witness ==
    /\ tolerance_meters > 0
    /\ Len(passes) = 2
    /\ passes[1].geometry.type = "MultiLineString"
    /\ \E k, n \in DOMAIN passes[1].geometry.coordinates :
           /\ Len(passes[1].geometry.coordinates[k]) = 2
           /\ passes[1].result.coordinates[k] = passes[1].geometry.coordinates[k]
           /\ Len(passes[1].result.coordinates[n]) <
                  Len(passes[1].geometry.coordinates[n])

\* The report of the engine for the k-th sequence of a call, as the report
\* of a call on that sequence alone.
EngineAlone(empty, k) ==
    [empty |-> IF k \in empty THEN {1} ELSE {}, keep |-> {}]

\* C16: a MultiLineString is simplified constituent by constituent: the
\* result has as many constituents, in the same order, and the i-th is what
\* simplify_geometry returns for the i-th input constituent alone, as a
\* LineString, with the same tolerance.
C16_MultiLineStringPerConstituent ==
    \A p \in DOMAIN passes :
        passes[p].geometry.type = "MultiLineString" =>
            LET in == passes[p].geometry.coordinates
                out == passes[p].result
            IN  /\ out.type = "MultiLineString"
                /\ Len(out.coordinates) = Len(in)
                /\ \A i \in DOMAIN in :
                       out.coordinates[i] =
                           simplify_geometry(LineStringGeom(in[i]), tolerance_meters,
                               EngineAlone(passes[p].empty, i)).coordinates

\* A MultiLineString of two different constituents was simplified, and the
\* engine reduced the second one.
C16_Witness ==
    \E p \in DOMAIN passes :
        /\ passes[p].geometry.type = "MultiLineString"
        /\ passes[p].empty = {}
        /\ Len(passes[p].geometry.coordinates) = 2
        /\ passes[p].geometry.coordinates[1] # passes[p].geometry.coordinates[2]
        /\ Len(passes[p].result.coordinates[2]) <
               Len(passes[p].geometry.coordinates[2])

\* C17: when the engine reports an empty result for a sequence, the result
\* of simplify_geometry has the original sequence in its place (the whole
\* original geometry for a LineString), and no sequence of the result is
\* empty when the input's was not.
C17_EmptyResultKeepsOriginal ==
    \A p \in DOMAIN passes :
        LET in == SequenceList(passes[p].geometry)
            out == SequenceList(passes[p].result)
        IN  /\ passes[p].geometry.type = "LineString" /\ 1 \in passes[p].empty =>
                   passes[p].result = passes[p].geometry
            /\ \A k \in passes[p].empty :
                   /\ k \in DOMAIN out
                   /\ out[k] = in[k]
            /\ \A k \in DOMAIN out : out[k] = <<>> => in[k] = <<>>

\* The engine reported an empty result for a constituent of a
\* MultiLineString that a tolerance of this size would have reduced, and
\* the constituent came out whole.
C17_Witness ==
    \E p \in DOMAIN passes :
        /\ passes[p].geometry.type = "MultiLineString"
        /\ tolerance_meters > 0
        /\ \E k \in passes[p].empty :
               /\ passes[p].geometry.coordinates[k] =
                      << <<0, 0>>, <<1, 0>>, <<2, 0>> >>
               /\ passes[p].result.coordinates[k] = passes[p].geometry.coordinates[k]

\* The features of the input with a coordinate outside the domain of the
\* projection.
OutsideDomain(feature) ==
    \E seq \in SequencesOf(feature.geometry) :
        \E n \in DOMAIN seq : ~InProjectionDomain(seq[n])

\* C19: a feature with a coordinate outside the domain of the projection
\* is passed through with its original geometry, and the failure does not
\* reach the other features: the loop does not end at such a feature.
C19_ProjectionFailurePassesThrough ==
    /\ \A k \in DOMAIN processed_features :
           OutsideDomain(features[k]) =>
               processed_features[k].geometry = features[k].geometry
    /\ pc = "aborted" =>
           (NextFeature.geometry = NoGeometry \/ ~OutsideDomain(NextFeature))

\* C20: no error raised on one feature ends the batch: the loop goes on to
\* the features after it, and the output is written.
C20_NoUnitErrorAbortsBatch ==
    pc = "aborted" =>
        /\ Len(processed_features) = Len(features)
        /\ output_written

\* The image of one point under each of the two transformations, taken
\* alone.
ToPlanarAlone(p) == transform_coordinates(LineStringGeom(<<p>>)).coordinates[1]

ToGeographicAlone(q) ==
    transform_coordinates_back(LineStringGeom(<<q>>)).coordinates[1]

\* C26: reprojection in either direction is pointwise: the result has the
\* type of the input, as many sequences, as many points in each, and the
\* point at each index is the image of the input point at that index
\* alone; a geometry that is neither kind of line comes back as it is.
C26_ReprojectionPointwise ==
    \A k \in DOMAIN processed_features :
        LET geo == features[k].geometry
            utm == passes[k].geometry
            simplified == passes[k].result
            back == processed_features[k].geometry
        IN  /\ utm.type = geo.type
            /\ back.type = simplified.type
            /\ geo.type \notin {"LineString", "MultiLineString"} =>
                   utm = geo /\ back = simplified
            /\ Len(SequenceList(utm)) = Len(SequenceList(geo))
            /\ Len(SequenceList(back)) = Len(SequenceList(simplified))
            /\ \A s \in DOMAIN SequenceList(geo) :
                   /\ Len(SequenceList(utm)[s]) = Len(SequenceList(geo)[s])
                   /\ \A n \in DOMAIN SequenceList(geo)[s] :
                          SequenceList(utm)[s][n] =
                              ToPlanarAlone(SequenceList(geo)[s][n])
            /\ \A s \in DOMAIN SequenceList(simplified) :
                   /\ Len(SequenceList(back)[s]) = Len(SequenceList(simplified)[s])
                   /\ \A n \in DOMAIN SequenceList(simplified)[s] :
                          SequenceList(back)[s][n] =
                              ToGeographicAlone(SequenceList(simplified)[s][n])

\* A Point and a line of two sequences, the second of three different
\* points, went through both transformations.
C26_Witness ==
    /\ Len(processed_features) = 2
    /\ features[1].geometry = Placeholder
    /\ processed_features[1].geometry = Placeholder
    /\ features[2].geometry.type = "MultiLineString"
    /\ Len(passes[2].geometry.coordinates) = 2
    /\ Len(passes[2].geometry.coordinates[2]) = 3
    /\ passes[2].geometry.coordinates[2] # features[2].geometry.coordinates[2]
    /\ Len(processed_features[2].geometry.coordinates) = 2

\* out can be had from in by leaving points out.
RECURSIVE IsSubsequence(_, _)
IsSubsequence(out, in) ==
    IF out = <<>> THEN TRUE
    ELSE IF in = <<>> THEN FALSE
    ELSE IF Head(out) = Head(in) THEN IsSubsequence(Tail(out), Tail(in))
    ELSE IsSubsequence(out, Tail(in))

\* C30: simplification only removes points: every sequence that
\* simplify_geometry returns is a subsequence of the input sequence in its
\* place (its points are input points in the input's order), so it is at
\* most as long.
C30_OutputIsSubsequence ==
    \A p \in DOMAIN passes :
        LET in == SequenceList(passes[p].geometry)
            out == SequenceList(passes[p].result)
        IN  /\ Len(out) = Len(in)
            /\ \A k \in DOMAIN in :
                   /\ IsSubsequence(out[k], in[k])
                   /\ Len(out[k]) <= Len(in[k])

\* A line of 5 points, none twice, was reduced to its ends and one or two
\* of its interior points.
C30_Witness ==
    \E p \in DOMAIN passes :
        LET in == passes[p].geometry
            out == passes[p].result
        IN  /\ in.type = "LineString" /\ Len(in.coordinates) = 5
            /\ Cardinality(Range(in.coordinates)) = 5
            /\ Len(out.coordinates) \in {3, 4}
            /\ out.coordinates[2] # in.coordinates[2]

====
